---- MODULE Spec2Model ----
(***************************************************************************)
(* Model of the QR generator API server (src/unnamed/part_001, the         *)
(* MongoDB-backed http server; production-server.js, part_002 and the      *)
(* express routers are the same handlers on other transports).             *)
(*                                                                         *)
(* A request handler is an async function: between two `await`s it runs    *)
(* without interruption, and every `await` of a store operation is a point *)
(* where other requests run.  Each action below is one such uninterrupted  *)
(* piece: the store operation the handler awaited, followed by the code up *)
(* to the next await (or to the response).  getUserFromToken's read of the *)
(* account (User.findById) is taken together with the synchronous code     *)
(* around it: the handler does nothing else before the URL checks.         *)
(*                                                                         *)
(* Store operations are those of Mongoose documents:                       *)
(*  - findOne/findById/countDocuments read the collection and hand the     *)
(*    handler a private copy (with the version key __v);                   *)
(*  - save() of a new document inserts it, and fails on a duplicate value  *)
(*    of a unique index or on a schema validator;                          *)
(*  - save() of a loaded document sends only the paths the handler         *)
(*    modified: a scalar as $set of the handler's value, an array push as  *)
(*    $push (with $inc of __v), an assigned array as $set under the        *)
(*    condition that __v is still the loaded one (which fails with a       *)
(*    VersionError otherwise); it fails when the document is gone.         *)
(***************************************************************************)
EXTENDS Integers, Sequences, FiniteSets, TLC

VARIABLES
    qrcodes,    \* QRCodeModel collection: _id -> document
    users,      \* User collection: _id -> document
    sessions,   \* in-memory session map: token -> [userId, expiresAt]
    now,        \* wall clock (Date.now(), milliseconds)
    nextId,     \* next ObjectId the driver hands out
    pc,         \* per request slot: where its handler is suspended
    local,      \* per request slot: the handler's local variables
    resp,       \* the response sent last
    issued,     \* history: short ids generateShortId has returned
    assigned,   \* history: short id -> _ids of links inserted under it
    redirects,  \* history: _id -> number of 302 responses served for it
    log,        \* history: _id -> scan events saved since Init, in save order
    scansStarted, \* history: resolutions that found their link
    quotaPassed, \* history: owner -> creations the plan limit check let pass
    hist        \* history: [reactivated: _ids saved active after being inactive,
                \*           resolvedAfter: _ids found by a resolution after that]

vars == <<qrcodes, users, sessions, now, nextId, pc, local, resp,
          issued, assigned, redirects, log, scansStarted, quotaPassed, hist>>

----------------------------------------------------------------------------
(* Bounds of the model *)

NumProcs == 2
MaxDocs == 2
MaxScans == 3
MaxSeqScans == 1002
MaxCapScans == 3
MaxRaceDocs == 7
MaxQuotaDocs == 7
MaxTicks == 2
MaxReadScans == 2
MaxEditScans == 1
MaxCreateScans == 2
MaxPremiumDocs == 1
MaxPremiumScans == 1
MaxStatEvents == 3
MaxDashLinks == 11
MaxLinkEvents == 3
DayTicks == 2
MaxUrlBody == 3
MaxCoreNew == 2
MaxCoreScans == 1
MaxMemDocs == 3
MaxMemScans == 2
MaxFailDocs == 2
MaxSessionDocs == 4

(* Program constants *)

HistoryCap == 1000
SessionTTL == 604800000
FreeMaxQRCodes == 5
ProMaxQRCodes == 100
NoDate == 0
WindowDays == 30
TopLinks == 10
RecentEvents == 20

Procs == 1..NumProcs
Null == "null"

Min(a, b) == IF a < b THEN a ELSE b

----------------------------------------------------------------------------
(* Accounts: the User schema and its pre('save') limits hook *)

Users == {"u1", "u2", "u3"}
Tokens == {"t1", "t2"}

UnlimitedQRCodes == -1

PlanLimits(plan) ==
    CASE plan = "free" ->
           [maxQRCodes |-> FreeMaxQRCodes, maxScansPerMonth |-> 100,
            canCustomize |-> FALSE, canTrackAnalytics |-> FALSE,
            canExportData |-> FALSE]
      [] plan = "pro" ->
           [maxQRCodes |-> ProMaxQRCodes, maxScansPerMonth |-> 10000,
            canCustomize |-> TRUE, canTrackAnalytics |-> TRUE,
            canExportData |-> TRUE]
      [] plan = "enterprise" ->
           [maxQRCodes |-> UnlimitedQRCodes, maxScansPerMonth |-> -1,
            canCustomize |-> TRUE, canTrackAnalytics |-> TRUE,
            canExportData |-> TRUE]

\* A stored account as its pre('save') hook leaves it.
Account(plan, created) ==
    [plan |-> plan, limits |-> PlanLimits(plan), qrCodesCreated |-> created]

\* What a handler holds after `await User.findById(...)`; id = Null is `null`.
NoUser == [id |-> Null, plan |-> Null, limits |-> PlanLimits("free"),
           qrCodesCreated |-> 0]

UserDoc(u) == [id |-> u, plan |-> users[u].plan, limits |-> users[u].limits,
               qrCodesCreated |-> users[u].qrCodesCreated]

----------------------------------------------------------------------------
(* Authorization header and the session map *)

AuthHeaders ==
    {[kind |-> "none", token |-> Null], [kind |-> "malformed", token |-> Null]}
    \cup {[kind |-> "bearer", token |-> t] : t \in Tokens}

\* `!session || session.expiresAt < Date.now()`
SessionRejected(token) ==
    \/ token \notin DOMAIN sessions
    \/ sessions[token].expiresAt < now

\* getUserFromToken: the user the header authenticates, or `null`.
\* Mutant: the session lookup does not look at expiresAt.
GetUserIgnoringExpiry(hdr) ==
    IF hdr.kind # "bearer" THEN NoUser
    ELSE IF hdr.token \notin DOMAIN sessions THEN NoUser
    ELSE UserDoc(sessions[hdr.token].userId)

GetUserFromToken(hdr) ==
    IF hdr.kind # "bearer" THEN NoUser
    ELSE IF SessionRejected(hdr.token) THEN NoUser
    ELSE UserDoc(sessions[hdr.token].userId)

\* Mutant: a rejected token stays in the session map.
SessionsKept(hdr) == sessions

\* getUserFromToken's effect on the session map: sessions.delete(token).
SessionsAfterLookup(hdr) ==
    IF hdr.kind = "bearer" /\ SessionRejected(hdr.token)
    THEN [t \in DOMAIN sessions \ {hdr.token} |-> sessions[t]]
    ELSE sessions

----------------------------------------------------------------------------
(* Destination URLs, as character sequences *)

Https == <<"h", "t", "t", "p", "s", ":", "/", "/">>
Http == <<"h", "t", "t", "p", ":", "/", "/">>

ToLower(c) ==
    CASE c = "H" -> "h" [] c = "T" -> "t" [] c = "P" -> "p" [] c = "S" -> "s"
      [] OTHER -> c

LowerCase(s) == [i \in 1..Len(s) |-> ToLower(s[i])]

IsPrefix(p, s) == Len(p) <= Len(s) /\ SubSeq(s, 1, Len(p)) = p

\* /^https?:\/\//i.test(urlString)
HasProtocol(s) == IsPrefix(Http, LowerCase(s)) \/ IsPrefix(Https, LowerCase(s))

RECURSIVE TrimStart(_)
TrimStart(s) ==
    IF s # <<>> /\ Head(s) = " " THEN TrimStart(Tail(s)) ELSE s

RECURSIVE TrimEnd(_)
TrimEnd(s) ==
    IF s # <<>> /\ s[Len(s)] = " " THEN TrimEnd(SubSeq(s, 1, Len(s) - 1)) ELSE s

Trim(s) == TrimEnd(TrimStart(s))

\* Mutant: a URL without a protocol is given http://.
SanitizeUrlHttp(s) ==
    IF HasProtocol(Trim(s)) THEN Trim(s) ELSE Http \o Trim(s)

\* sanitizeUrl: every branch after the protocol test prefixes https://
SanitizeUrl(s) ==
    IF HasProtocol(Trim(s)) THEN Trim(s) ELSE Https \o Trim(s)

UpperCase == <<"A", "B", "C", "D", "E", "F", "G", "H", "I", "J", "K", "L", "M",
               "N", "O", "P", "Q", "R", "S", "T", "U", "V", "W", "X", "Y", "Z">>
LowerLetters == <<"a", "b", "c", "d", "e", "f", "g", "h", "i", "j", "k", "l", "m",
                  "n", "o", "p", "q", "r", "s", "t", "u", "v", "w", "x", "y", "z">>

\* toLowerCase()
ToLowerCase(s) ==
    [i \in DOMAIN s |->
       IF \E k \in DOMAIN UpperCase : UpperCase[k] = s[i]
       THEN LowerLetters[CHOOSE k \in DOMAIN UpperCase : UpperCase[k] = s[i]]
       ELSE s[i]]

IsLetter(c) ==
    \E k \in DOMAIN UpperCase : c = UpperCase[k] \/ c = LowerLetters[k]

DigitChars == <<"0", "1", "2", "3", "4", "5", "6", "7", "8", "9">>
IsDigit(c) == \E k \in DOMAIN DigitChars : c = DigitChars[k]

RECURSIVE DecimalValue(_)
DecimalValue(s) ==
    IF s = <<>> THEN 0
    ELSE 10 * DecimalValue(SubSeq(s, 1, Len(s) - 1))
         + (CHOOSE k \in DOMAIN DigitChars : DigitChars[k] = s[Len(s)]) - 1

\* Index of the first (last) character of s that is in cs, 0 when none is.
FirstIndex(s, cs) ==
    IF \E i \in DOMAIN s : s[i] \in cs
    THEN CHOOSE i \in DOMAIN s :
           s[i] \in cs /\ \A j \in 1..(i - 1) : s[j] \notin cs
    ELSE 0

LastIndex(s, cs) ==
    IF \E i \in DOMAIN s : s[i] \in cs
    THEN CHOOSE i \in DOMAIN s :
           s[i] \in cs /\ \A j \in (i + 1)..Len(s) : s[j] \notin cs
    ELSE 0

Drop(s, n) == SubSeq(s, n + 1, Len(s))

(* `new URL(urlString)`, the URL Standard's parser without a base URL, for  *)
(* strings without tab, newline, percent sign, bracket or a digit in the   *)
(* host (no IPv4/IPv6 literal) and for schemes other than file.            *)

SpecialSchemes == {<<"h", "t", "t", "p">>, <<"h", "t", "t", "p", "s">>,
                   <<"f", "t", "p">>, <<"w", "s">>, <<"w", "s", "s">>}

HttpSchemes == {<<"h", "t", "t", "p">>, <<"h", "t", "t", "p", "s">>}

\* scheme state: alphanumerics, +, - and . after a leading letter
IsSchemeChar(c) == IsLetter(c) \/ IsDigit(c) \/ c \in {"+", "-", "."}

\* forbidden host code points
ForbiddenHost == {" ", "#", "/", ":", "<", ">", "?", "@", "\\", "^", "|"}

MaxPort == 65535

RECURSIVE SkipSlashes(_)
\* special authority slashes / ignore slashes states
SkipSlashes(s) ==
    IF s # <<>> /\ Head(s) \in {"/", "\\"} THEN SkipSlashes(Tail(s)) ELSE s

\* authority, host and port states; what follows the authority (path, query,
\* fragment) never makes the parser fail.
AuthorityParses(s, special) ==
    LET stop == FirstIndex(s, IF special THEN {"/", "?", "#", "\\"}
                              ELSE {"/", "?", "#"})
        authority == IF stop = 0 THEN s ELSE SubSeq(s, 1, stop - 1)
        at == LastIndex(authority, {"@"})
        hostport == Drop(authority, at)
        colon == FirstIndex(hostport, {":"})
        host == IF colon = 0 THEN hostport ELSE SubSeq(hostport, 1, colon - 1)
        port == IF colon = 0 THEN <<>> ELSE Drop(hostport, colon)
    IN  /\ ~(at > 0 /\ hostport = <<>>)
        /\ ~(colon > 0 /\ host = <<>>)
        /\ special => host # <<>>
        /\ \A i \in DOMAIN host : host[i] \notin ForbiddenHost
        /\ \A i \in DOMAIN port : IsDigit(port[i])
        /\ Len(port) <= 5
        /\ (\A i \in DOMAIN port : IsDigit(port[i]))
              => DecimalValue(port) <= MaxPort

NoParse == [ok |-> FALSE, protocol |-> <<>>]

\* The parser's verdict and, when it succeeds, the URL's protocol without
\* its colon.
ParseUrl(input) ==
    LET s == Trim(input)
        colon == FirstIndex(s, {":"})
        scheme == ToLowerCase(SubSeq(s, 1, colon - 1))
        rest == Drop(s, colon)
    IN  IF ~(/\ colon > 1
             /\ IsLetter(s[1])
             /\ \A i \in 2..(colon - 1) : IsSchemeChar(s[i]))
        THEN NoParse
        ELSE IF scheme \in SpecialSchemes
        THEN IF AuthorityParses(SkipSlashes(rest), TRUE)
             THEN [ok |-> TRUE, protocol |-> scheme] ELSE NoParse
        ELSE IF IsPrefix(<<"/", "/">>, rest)
        THEN IF AuthorityParses(Drop(rest, 2), FALSE)
             THEN [ok |-> TRUE, protocol |-> scheme] ELSE NoParse
        ELSE [ok |-> TRUE, protocol |-> scheme]

\* Mutant: validation accepts whatever sanitizeUrl returned.
ValidateUrlAnything(s) == TRUE

\* validateUrl of the server: `new URL(urlString)` does not throw.
ValidateUrl(s) == ParseUrl(s).ok

\* validateUrl of the qr utilities: the parsed protocol is http: or https:
ValidateUrlProtocol(s) == ParseUrl(s).ok /\ ParseUrl(s).protocol \in HttpSchemes

NoUrl == <<>>
UrlInputs == {NoUrl,
              <<"e", "x", ".", "c", "o">>,
              <<" ", "H", "T", "T", "P", ":", "/", "/", "a", ".", "i", "o">>,
              <<"a", " ", "b">>}

SizeInputs == {256, 64}

\* QRCodeSchema.customization.size: min 128, max 1024
SizeValid(size) == 128 <= size /\ size <= 1024

----------------------------------------------------------------------------
(* Links: the QRCode schema *)

ShortIds == 1..(MaxDocs + MaxRaceDocs)

UserAgents == {"iPhone"}

\* Mutant: every link is created with isPremium false.
NewQRCodeNeverPremium(user, url, shortId) ==
    [userId |-> user.id, url |-> url, shortId |-> shortId,
     title |-> "Untitled QR Code", description |-> "", isActive |-> TRUE,
     isPremium |-> FALSE, totalScans |-> 0, lastScanned |-> NoDate,
     scanHistory |-> <<>>, v |-> 0]

NewQRCode(user, url, shortId) ==
    [userId |-> user.id,
     url |-> url,
     shortId |-> shortId,
     title |-> "Untitled QR Code",
     description |-> "",
     isActive |-> TRUE,
     isPremium |-> (user.plan # "free"),
     totalScans |-> 0,
     lastScanned |-> NoDate,
     scanHistory |-> <<>>,
     v |-> 0]

\* QRCodeModel.countDocuments({ userId })
CountDocuments(u) == Cardinality({id \in DOMAIN qrcodes : qrcodes[id].userId = u})

\* Mutant: the lookup ignores isActive, findOne({ shortId }).
FindAnyStatus(shortId) ==
    {id \in DOMAIN qrcodes : qrcodes[id].shortId = shortId}

\* QRCodeModel.findOne({ shortId, isActive: true }): the matching _ids
FindActive(shortId) ==
    {id \in DOMAIN qrcodes : qrcodes[id].shortId = shortId /\ qrcodes[id].isActive}

\* Mutant: the lookup ignores the owner, findById(qrId).
FindById(id, u) == {i \in DOMAIN qrcodes : i = id}


\* QRCodeModel.findOne({ _id, userId })
FindOwned(id, u) ==
    {i \in DOMAIN qrcodes : i = id /\ qrcodes[i].userId = u}

\* The unique index on shortId
ShortIdTaken(shortId) == \E id \in DOMAIN qrcodes : qrcodes[id].shortId = shortId

\* generateShortId() draws at random; identifiers are interchangeable, so a
\* draw is either one drawn before or the least one never drawn.
FreshShortId == CHOOSE s \in ShortIds \ issued : \A t \in ShortIds \ issued : s <= t
ShortIdDraws == issued \cup (IF ShortIds \ issued = {} THEN {} ELSE {FreshShortId})

----------------------------------------------------------------------------
(* Request slots *)

NoLocal == [op |-> "none"]
NoResp == [kind |-> "none", status |-> 0]

InFlight(ops) == Cardinality({q \in Procs : pc[q] \in ops})

GenPcs == {"gen_count", "gen_insert", "gen_usersave"}

\* Request slots are interchangeable: a new request takes the lowest idle one.
Accepts(p) == pc[p] = "idle" /\ \A q \in Procs : q < p => pc[q] # "idle"

\* Mutant: the handler goes on after res.end().
RespondAndContinue(p, r) ==
    /\ resp' = r
    /\ UNCHANGED <<pc, local>>

\* res.writeHead(...); res.end(...); return
Respond(p, r) ==
    /\ pc' = [pc EXCEPT ![p] = "idle"]
    /\ local' = [local EXCEPT ![p] = NoLocal]
    /\ resp' = r

Suspend(p, at, l) ==
    /\ pc' = [pc EXCEPT ![p] = at]
    /\ local' = [local EXCEPT ![p] = l]
    /\ UNCHANGED resp

----------------------------------------------------------------------------
(* POST /api/auth/login: a successful login issues a session token;        *)
(* generateToken() is 32 random bytes, a token no session holds            *)

Login(u, token) ==
    /\ token \notin DOMAIN sessions
    /\ sessions' = [t \in DOMAIN sessions \cup {token} |->
                      IF t = token
                      THEN [userId |-> u, expiresAt |-> now + SessionTTL]
                      ELSE sessions[t]]
    /\ UNCHANGED <<qrcodes, users, now, nextId, pc, local, resp,
                   issued, assigned, redirects, log, scansStarted, quotaPassed, hist>>

\* Time passes between requests.
AdvanceClock(d, limit) ==
    /\ now + d <= limit
    /\ now' = now + d
    /\ UNCHANGED <<qrcodes, users, sessions, nextId, pc, local, resp,
                   issued, assigned, redirects, log, scansStarted, quotaPassed, hist>>

----------------------------------------------------------------------------
(* GET /r/:shortId *)

ScanData(ts, ua) == [timestamp |-> ts, userAgent |-> ua]

\* Mutant: the cap keeps the oldest entries, slice(0, 1000).
PushCappedKeepOldest(history, scanData) ==
    LET pushed == Append(history, scanData)
    IN  IF Len(pushed) > HistoryCap THEN SubSeq(pushed, 1, HistoryCap) ELSE pushed

\* scanHistory.push(scanData), then the cap: slice(-1000)
PushCapped(history, scanData) ==
    LET pushed == Append(history, scanData)
    IN  IF Len(pushed) > HistoryCap
        THEN SubSeq(pushed, Len(pushed) - HistoryCap + 1, Len(pushed))
        ELSE pushed

\* `timestamp: new Date()` and `lastScanned = new Date()` read the clock
\* twice: the second read is the same millisecond or the next one.
SecondClockRead(ts) == {ts, ts + 1}

\* The handler's changes to its loaded copy of the document.
RecordScan(doc, scanData, ts) ==
    [doc EXCEPT !.totalScans = @ + 1,
                !.lastScanned = ts,
                !.scanHistory = PushCapped(@, scanData)]

\* The array was reassigned (the slice branch ran): save() sends it whole.
Reassigned(doc) == Len(doc.scanHistory) + 1 > HistoryCap

\* Mutant: the resolution's save writes back its whole loaded copy.
SaveScanWholeDocument(stored, l) == [l.doc EXCEPT !.v = stored.v + 1]

\* What `await qrCode.save()` writes for a resolution.
SaveScan(stored, l) ==
    [stored EXCEPT !.totalScans = l.doc.totalScans,
                   !.lastScanned = l.doc.lastScanned,
                   !.scanHistory = IF l.reassigned THEN l.doc.scanHistory
                                   ELSE Append(@, l.scanData),
                   !.v = @ + 1]

\* The save is refused: the document is gone, or its version moved under a
\* reassigned array.
SaveScanFails(l) ==
    \/ l.id \notin DOMAIN qrcodes
    \/ l.reassigned /\ qrcodes[l.id].v # l.loadedV

ResolveLoad(p, shortId, ua, limit) ==
    /\ Accepts(p)
    /\ IF FindActive(shortId) = {}
       THEN /\ Respond(p, [kind |-> "resolve", status |-> 404,
                           shortId |-> shortId, location |-> NoUrl])
            /\ UNCHANGED <<now, scansStarted>>
       ELSE /\ scansStarted < limit
            /\ \E id \in FindActive(shortId), read2 \in SecondClockRead(now + 1) :
                 Suspend(p, "res_save",
                         [op |-> "resolve", shortId |-> shortId, id |-> id,
                          loadedV |-> qrcodes[id].v,
                          scanData |-> ScanData(now + 1, ua),
                          reassigned |-> Reassigned(qrcodes[id]),
                          doc |-> RecordScan(qrcodes[id],
                                             ScanData(now + 1, ua), read2)])
            /\ now' = now + 1
            /\ scansStarted' = scansStarted + 1
    /\ hist' = [hist EXCEPT !.resolvedAfter =
                    @ \cup (FindActive(shortId) \cap hist.reactivated)]
    /\ UNCHANGED <<qrcodes, users, sessions, nextId, issued, assigned,
                   redirects, log, quotaPassed>>

ResolveSave(p) ==
    /\ pc[p] = "res_save"
    /\ LET l == local[p] IN
       IF SaveScanFails(l)
       THEN /\ Respond(p, [kind |-> "resolve", status |-> 500,
                           shortId |-> l.shortId, location |-> NoUrl])
            /\ UNCHANGED <<qrcodes, redirects, log>>
       ELSE /\ qrcodes' = [qrcodes EXCEPT ![l.id] = SaveScan(@, l)]
            /\ redirects' = [redirects EXCEPT ![l.id] = @ + 1]
            /\ log' = [log EXCEPT ![l.id] = Append(@, l.scanData)]
            /\ Respond(p, [kind |-> "resolve", status |-> 302,
                           shortId |-> l.shortId, location |-> l.doc.url])
    /\ UNCHANGED <<users, sessions, now, nextId, issued, assigned,
                   scansStarted, quotaPassed, hist>>

----------------------------------------------------------------------------
(* POST /api/qr/generate *)

\* `${baseUrl}/r/${shortId}`
ShortUrl(shortId) == <<"base", "r", shortId>>

\* The response; a 200 carries shortUrl.
GenResp(status, l, id) ==
    [kind |-> "generate", status |-> status, hdr |-> l.hdr,
     userId |-> l.user.id, id |-> id,
     shortUrl |-> IF status = 200 THEN ShortUrl(l.shortId) ELSE <<>>]

\* Mutant: the check lets a request pass when the count equals the limit.
PlanLimitExceeded(user, userQRCodes) == userQRCodes > user.limits.maxQRCodes

\* `userQRCodes >= currentUser.limits.maxQRCodes`
PlanLimitReached(user, userQRCodes) == userQRCodes >= user.limits.maxQRCodes

\* parseJSON, getUserFromToken, the URL checks; an anonymous request goes on
\* to generateShortId and QRCode.toDataURL.
GenerateBegin(p, hdr, inputUrl, size, shortId, limit) ==
    /\ Accepts(p)
    /\ nextId + InFlight(GenPcs) <= limit
    /\ Cardinality(issued) + InFlight(GenPcs) < limit
    /\ GetUserFromToken(hdr).id # Null
         => quotaPassed[GetUserFromToken(hdr).id] + InFlight(GenPcs) < limit
    /\ sessions' = SessionsAfterLookup(hdr)
    /\ LET user == GetUserFromToken(hdr)
           l == [op |-> "generate", hdr |-> hdr, user |-> user,
                 inputUrl |-> inputUrl,
                 url |-> SanitizeUrl(inputUrl), size |-> size,
                 shortId |-> shortId, id |-> 0]
       IN  IF inputUrl = NoUrl \/ ~ValidateUrl(SanitizeUrl(inputUrl))
           THEN /\ Respond(p, GenResp(400, l, 0))
                /\ UNCHANGED issued
           ELSE IF user.id # Null
           THEN /\ Suspend(p, "gen_count", [l EXCEPT !.shortId = 0])
                /\ UNCHANGED issued
           ELSE /\ Suspend(p, "gen_insert", l)
                /\ issued' = issued \cup {shortId}
    /\ UNCHANGED <<qrcodes, users, now, nextId, assigned, redirects, log,
                   scansStarted, quotaPassed, hist>>

\* `await parseJSON(req)` rejects (the body is not JSON): the handler's
\* outer catch answers 500 before anything else is done.
GenerateReject(p, hdr) ==
    /\ Accepts(p)
    /\ Respond(p, GenResp(500, [hdr |-> hdr, user |-> NoUser, shortId |-> 0], 0))
    /\ UNCHANGED <<qrcodes, users, sessions, now, nextId, issued, assigned,
                   redirects, log, scansStarted, quotaPassed, hist>>

\* countDocuments, the plan limit check, generateShortId, QRCode.toDataURL
GenerateCount(p, shortId) ==
    /\ pc[p] = "gen_count"
    /\ LET l == local[p] IN
       IF PlanLimitReached(l.user, CountDocuments(l.user.id))
       THEN /\ Respond(p, GenResp(403, l, 0))
            /\ UNCHANGED <<issued, quotaPassed>>
       ELSE /\ Suspend(p, "gen_insert", [l EXCEPT !.shortId = shortId])
            /\ issued' = issued \cup {shortId}
            /\ quotaPassed' = [quotaPassed EXCEPT ![l.user.id] = @ + 1]
    /\ UNCHANGED <<qrcodes, users, sessions, now, nextId, assigned,
                   redirects, log, scansStarted, hist>>

\* `await qrCode.save()` of the new document: schema validation, then the
\* insert under the unique index on shortId.
InsertFails(l) == ~SizeValid(l.size) \/ ShortIdTaken(l.shortId)

GenerateInsert(p) ==
    /\ pc[p] = "gen_insert"
    /\ LET l == local[p] IN
       IF InsertFails(l)
       THEN /\ Respond(p, GenResp(500, l, 0))
            /\ UNCHANGED <<qrcodes, nextId, assigned, redirects, log>>
       ELSE /\ qrcodes' = (nextId :> NewQRCode(l.user, l.url, l.shortId)) @@ qrcodes
            /\ nextId' = nextId + 1
            /\ assigned' = (l.shortId :>
                              ((IF l.shortId \in DOMAIN assigned
                                THEN assigned[l.shortId] ELSE {}) \cup {nextId}))
                           @@ assigned
            /\ redirects' = (nextId :> 0) @@ redirects
            /\ log' = (nextId :> << >>) @@ log
            /\ IF l.user.id # Null
               THEN Suspend(p, "gen_usersave", [l EXCEPT !.id = nextId])
               ELSE Respond(p, GenResp(200, l, nextId))
    /\ UNCHANGED <<users, sessions, now, issued, scansStarted, quotaPassed, hist>>

\* `currentUser.usage.qrCodesCreated += 1; await currentUser.save()`
GenerateUserSave(p) ==
    /\ pc[p] = "gen_usersave"
    /\ LET l == local[p] IN
       /\ users' = [users EXCEPT ![l.user.id].qrCodesCreated =
                                     l.user.qrCodesCreated + 1]
       /\ Respond(p, GenResp(200, l, l.id))
    /\ UNCHANGED <<qrcodes, sessions, now, nextId, issued, assigned,
                   redirects, log, scansStarted, quotaPassed, hist>>

----------------------------------------------------------------------------
(* PUT /api/qr/:id *)

\* The response of PUT and DELETE /api/qr/:id, with the id the request named
\* and the account getUserFromToken resolved.
EditResp(kind, status, id, userId) ==
    [kind |-> kind, status |-> status, id |-> id, userId |-> userId]

UpdateBodies ==
    {[fields |-> {"isActive"}, title |-> "", description |-> "",
      isActive |-> FALSE],
     [fields |-> {"isActive"}, title |-> "", description |-> "",
      isActive |-> TRUE],
     [fields |-> {"title", "description"}, title |-> "Menu",
      description |-> "Lunch", isActive |-> TRUE]}

\* `if (x !== undefined) qrCode.x = x` for title, description, isActive
ApplyUpdate(doc, body) ==
    [doc EXCEPT
       !.title = IF "title" \in body.fields THEN body.title ELSE @,
       !.description = IF "description" \in body.fields
                       THEN body.description ELSE @,
       !.isActive = IF "isActive" \in body.fields THEN body.isActive ELSE @]

\* Mutant: save() sends the three editable paths whether assigned or not.
AllEditablePaths(loaded, doc) == {"title", "description", "isActive"}

\* save() sends the paths whose value changed.
ModifiedPaths(loaded, doc) ==
    {f \in {"title", "description", "isActive"} : doc[f] # loaded[f]}

\* Mutant: save() writes back every field of the handler's copy.
SaveWholeDocument(stored, l) == [l.doc EXCEPT !.v = stored.v]

SaveUpdate(stored, l) ==
    [stored EXCEPT
       !.title = IF "title" \in l.modified THEN l.doc.title ELSE @,
       !.description = IF "description" \in l.modified
                       THEN l.doc.description ELSE @,
       !.isActive = IF "isActive" \in l.modified THEN l.doc.isActive ELSE @]

UpdateLoad(p, hdr, id, body) ==
    /\ Accepts(p)
    /\ sessions' = SessionsAfterLookup(hdr)
    /\ LET user == GetUserFromToken(hdr) IN
       IF user.id = Null
       THEN Respond(p, EditResp("update", 401, id, user.id))
       ELSE IF FindOwned(id, user.id) = {}
       THEN Respond(p, EditResp("update", 404, id, user.id))
       ELSE Suspend(p, "upd_save",
                    [op |-> "update", id |-> id, user |-> user,
                     fields |-> body.fields,
                     loaded |-> qrcodes[id],
                     doc |-> ApplyUpdate(qrcodes[id], body),
                     modified |-> ModifiedPaths(qrcodes[id],
                                                ApplyUpdate(qrcodes[id], body))])
    /\ UNCHANGED <<qrcodes, users, now, nextId, issued, assigned, redirects,
                   log, scansStarted, quotaPassed, hist>>

UpdateSave(p) ==
    /\ pc[p] = "upd_save"
    /\ LET l == local[p] IN
       IF l.modified = {}
       THEN /\ Respond(p, EditResp("update", 200, l.id, l.user.id))
            /\ UNCHANGED <<qrcodes, hist>>
       ELSE IF l.id \notin DOMAIN qrcodes
       THEN /\ Respond(p, EditResp("update", 500, l.id, l.user.id))
            /\ UNCHANGED <<qrcodes, hist>>
       ELSE /\ qrcodes' = [qrcodes EXCEPT ![l.id] = SaveUpdate(@, l)]
            /\ hist' = IF ~qrcodes[l.id].isActive /\ SaveUpdate(qrcodes[l.id], l).isActive
                       THEN [hist EXCEPT !.reactivated = @ \cup {l.id}]
                       ELSE hist
            /\ Respond(p, EditResp("update", 200, l.id, l.user.id))
    /\ UNCHANGED <<users, sessions, now, nextId, issued, assigned, redirects,
                   log, scansStarted, quotaPassed>>

----------------------------------------------------------------------------
(* GET /api/qr/user/list *)

\* QRCodeModel.find({ userId }), formatted for the dashboard
ListItems(u) ==
    {[id |-> id, shortId |-> qrcodes[id].shortId,
      totalScans |-> qrcodes[id].totalScans, isActive |-> qrcodes[id].isActive] :
       id \in {i \in DOMAIN qrcodes : qrcodes[i].userId = u}}

ListLinks(p, hdr) ==
    /\ Accepts(p)
    /\ sessions' = SessionsAfterLookup(hdr)
    /\ LET user == GetUserFromToken(hdr) IN
       IF user.id = Null
       THEN Respond(p, [kind |-> "list", status |-> 401, qrCodes |-> {}])
       ELSE Respond(p, [kind |-> "list", status |-> 200,
                        qrCodes |-> ListItems(user.id)])
    /\ UNCHANGED <<qrcodes, users, now, nextId, issued, assigned, redirects,
                   log, scansStarted, quotaPassed, hist>>

----------------------------------------------------------------------------
(* DELETE /api/qr/:id *)

DeleteLoad(p, hdr, id) ==
    /\ Accepts(p)
    /\ sessions' = SessionsAfterLookup(hdr)
    /\ LET user == GetUserFromToken(hdr) IN
       IF user.id = Null
       THEN Respond(p, EditResp("delete", 401, id, user.id))
       ELSE IF FindOwned(id, user.id) = {}
       THEN Respond(p, EditResp("delete", 404, id, user.id))
       ELSE Suspend(p, "del_remove", [op |-> "delete", id |-> id, user |-> user])
    /\ UNCHANGED <<qrcodes, users, now, nextId, issued, assigned, redirects,
                   log, scansStarted, quotaPassed, hist>>

\* findByIdAndDelete, then `if (user.usage.qrCodesCreated > 0)`
DeleteRemove(p) ==
    /\ pc[p] = "del_remove"
    /\ LET l == local[p] IN
       /\ qrcodes' = [i \in DOMAIN qrcodes \ {l.id} |-> qrcodes[i]]
       /\ IF l.user.qrCodesCreated > 0
          THEN Suspend(p, "del_usersave", l)
          ELSE Respond(p, EditResp("delete", 200, l.id, l.user.id))
    /\ UNCHANGED <<users, sessions, now, nextId, issued, assigned, redirects,
                   log, scansStarted, quotaPassed, hist>>

\* `user.usage.qrCodesCreated -= 1; await user.save()`
DeleteUserSave(p) ==
    /\ pc[p] = "del_usersave"
    /\ LET l == local[p] IN
       /\ users' = [users EXCEPT ![l.user.id].qrCodesCreated =
                                     l.user.qrCodesCreated - 1]
       /\ Respond(p, EditResp("delete", 200, l.id, l.user.id))
    /\ UNCHANGED <<qrcodes, sessions, now, nextId, issued, assigned,
                   redirects, log, scansStarted, quotaPassed, hist>>

----------------------------------------------------------------------------
(* POST /api/billing/webhook -> handleSubscriptionChange                    *)

PlanEnum == {"free", "pro", "enterprise"}
ProPriceId == "price_1Rw7etFXRF5SxiRxHvCZJ744"
BusinessPriceId == "price_1Rw7euFXRF5SxiRxfhlQ3q1b"
PriceIds == {ProPriceId, BusinessPriceId}
SubscriptionStatuses == {"active", "canceled"}

\* `let newPlan = 'free'; if (isActive) { if (priceId === ...) ... }`
NewPlan(status, priceId) ==
    IF status # "active" THEN "free"
    ELSE IF priceId = ProPriceId THEN "pro"
    ELSE IF priceId = BusinessPriceId THEN "business"
    ELSE "free"

\* newLimits: the three fields the handler writes
NewLimits(plan) ==
    CASE plan = "pro" -> [maxQRCodes |-> ProMaxQRCodes, canCustomize |-> TRUE,
                          canTrackAnalytics |-> TRUE]
      [] plan = "business" -> [maxQRCodes |-> 1000, canCustomize |-> TRUE,
                               canTrackAnalytics |-> TRUE]
      [] OTHER -> [maxQRCodes |-> FreeMaxQRCodes, canCustomize |-> FALSE,
                   canTrackAnalytics |-> FALSE]

\* `user.limits = newLimits` replaces the nested object; the fields it does
\* not name are absent from the stored account, and every reader gets the
\* schema defaults for them.  The account is kept as readers get it.
WithSchemaDefaults(newLimits) ==
    [maxQRCodes |-> newLimits.maxQRCodes, maxScansPerMonth |-> 100,
     canCustomize |-> newLimits.canCustomize,
     canTrackAnalytics |-> newLimits.canTrackAnalytics,
     canExportData |-> FALSE]

\* UserSchema.pre('save'): `if (this.isModified('plan')) switch (this.plan)`
PreSaveLimits(planModified, plan, limits) ==
    IF planModified /\ plan \in PlanEnum THEN PlanLimits(plan) ELSE limits

\* save() of the loaded account: plan is sent when its value changed, limits
\* always (the assignment marks it modified).
SaveSubscription(stored, l) ==
    [stored EXCEPT
       !.plan = IF l.newPlan # l.user.plan THEN l.newPlan ELSE @,
       !.limits = PreSaveLimits(l.newPlan # l.user.plan, l.newPlan,
                                WithSchemaDefaults(NewLimits(l.newPlan)))]

\* customer.subscription.created / updated / deleted, up to `await user.save()`
WebhookLoad(p, u, status, priceId) ==
    /\ Accepts(p)
    /\ Suspend(p, "hook_save",
               [op |-> "webhook", user |-> UserDoc(u),
                newPlan |-> NewPlan(status, priceId)])
    /\ UNCHANGED <<qrcodes, users, sessions, now, nextId, issued, assigned,
                   redirects, log, scansStarted, quotaPassed, hist>>

\* `await user.save()`: the plan enum validator, the pre('save') hook, the
\* update; a validation error is rethrown and answered 500.
WebhookSave(p) ==
    /\ pc[p] = "hook_save"
    /\ LET l == local[p] IN
       IF l.newPlan \notin PlanEnum
       THEN /\ Respond(p, [kind |-> "webhook", status |-> 500,
                           userId |-> l.user.id, plan |-> l.newPlan])
            /\ UNCHANGED users
       ELSE /\ users' = [users EXCEPT ![l.user.id] = SaveSubscription(@, l)]
            /\ Respond(p, [kind |-> "webhook", status |-> 200,
                           userId |-> l.user.id, plan |-> l.newPlan])
    /\ UNCHANGED <<qrcodes, sessions, now, nextId, issued, assigned,
                   redirects, log, scansStarted, quotaPassed, hist>>

----------------------------------------------------------------------------
(* Express routes: routes/qr.ts (detail, list) and routes/analytics.ts,    *)
(* behind the authenticateToken middleware                                 *)

\* Authorization headers of the Express deployment: none, a token
\* jwt.verify rejects, or a token signed for an account.
JwtHeaders ==
    {[kind |-> "none", userId |-> Null], [kind |-> "invalid", userId |-> Null]}
    \cup {[kind |-> "jwt", userId |-> u] : u \in Users}

AnalyticsRoutes == {"analytics", "dashboard", "export", "list"}

NoData == [present |-> FALSE]

RECURSIVE SumTotalScans(_)
\* qrCodes.reduce((sum, qr) => sum + qr.analytics.totalScans, 0)
SumTotalScans(ids) ==
    IF ids = {} THEN 0
    ELSE LET id == CHOOSE i \in ids : TRUE
         IN  qrcodes[id].totalScans + SumTotalScans(ids \ {id})

\* The body of GET /api/analytics/qr/:id
AnalyticsData(doc) ==
    [present |-> TRUE, totalScans |-> doc.totalScans,
     lastScanned |-> doc.lastScanned,
     scanHistory |-> Len(doc.scanHistory)]

\* The body of GET /api/analytics/export/:id
ExportData(doc) ==
    [present |-> TRUE, shortId |-> doc.shortId, totalScans |-> doc.totalScans,
     lastScanned |-> doc.lastScanned, scanHistory |-> Len(doc.scanHistory)]

\* The overview of GET /api/analytics/dashboard
DashboardData(u) ==
    LET ids == {i \in DOMAIN qrcodes : qrcodes[i].userId = u}
    IN  [present |-> TRUE, totalQRCodes |-> Cardinality(ids),
         activeQRCodes |-> Cardinality({i \in ids : qrcodes[i].isActive}),
         totalScans |-> SumTotalScans(ids)]

\* A response, with the id the request named and the account the token was
\* signed for.
ExpressResp(route, status, id, userId, data) ==
    [kind |-> route, status |-> status, id |-> id, userId |-> userId,
     data |-> data]

\* authenticateToken, then the route handler up to its first store query:
\* dashboard and export check the feature flag before they query.
AuthenticateToken(p, hdr, route, id) ==
    /\ Accepts(p)
    /\ IF hdr.kind # "jwt"
       THEN Respond(p, ExpressResp(route, 401, id, Null, NoData))
       ELSE LET user == UserDoc(hdr.userId) IN
            IF route = "dashboard" /\ ~user.limits.canTrackAnalytics
            THEN Respond(p, ExpressResp(route, 403, id, user.id, NoData))
            ELSE IF route = "export" /\ ~user.limits.canExportData
            THEN Respond(p, ExpressResp(route, 403, id, user.id, NoData))
            ELSE Suspend(p, "route_find", [op |-> route, id |-> id, user |-> user])
    /\ UNCHANGED <<qrcodes, users, sessions, now, nextId, issued, assigned,
                   redirects, log, scansStarted, quotaPassed, hist>>

\* Mutant: the per-link route answers without looking at the feature flag.
AnalyticsUngated(l) ==
    IF FindOwned(l.id, l.user.id) = {}
    THEN ExpressResp("analytics", 404, l.id, l.user.id, NoData)
    ELSE ExpressResp("analytics", 200, l.id, l.user.id, AnalyticsData(qrcodes[l.id]))

\* GET /api/analytics/qr/:id after findOne({ _id, userId })
AnalyticsQr(l) ==
    IF FindOwned(l.id, l.user.id) = {}
    THEN ExpressResp("analytics", 404, l.id, l.user.id, NoData)
    ELSE IF ~l.user.limits.canTrackAnalytics
    THEN ExpressResp("analytics", 403, l.id, l.user.id, NoData)
    ELSE ExpressResp("analytics", 200, l.id, l.user.id, AnalyticsData(qrcodes[l.id]))

\* GET /api/analytics/export/:id after findOne({ _id, userId })
AnalyticsExport(l) ==
    IF FindOwned(l.id, l.user.id) = {}
    THEN ExpressResp("export", 404, l.id, l.user.id, NoData)
    ELSE ExpressResp("export", 200, l.id, l.user.id, ExportData(qrcodes[l.id]))

\* The route handler's query and its response; list goes on to
\* countDocuments.
RouteFind(p) ==
    /\ pc[p] = "route_find"
    /\ LET l == local[p] IN
       CASE l.op = "analytics" -> Respond(p, AnalyticsQr(l))
         [] l.op = "export" -> Respond(p, AnalyticsExport(l))
         [] l.op = "dashboard" ->
              Respond(p, ExpressResp("dashboard", 200, l.id, l.user.id,
                                      DashboardData(l.user.id)))
         [] l.op = "list" ->
              Suspend(p, "route_count",
                      [op |-> "list", id |-> l.id, user |-> l.user,
                       qrCodes |-> ListItems(l.user.id)])
    /\ UNCHANGED <<qrcodes, users, sessions, now, nextId, issued, assigned,
                   redirects, log, scansStarted, quotaPassed, hist>>

\* GET /api/qr/user/list after countDocuments({ userId })
RouteCount(p) ==
    /\ pc[p] = "route_count"
    /\ LET l == local[p] IN
       Respond(p, [kind |-> "list", status |-> 200, qrCodes |-> l.qrCodes,
                   totalItems |-> CountDocuments(l.user.id)])
    /\ UNCHANGED <<qrcodes, users, sessions, now, nextId, issued, assigned,
                   redirects, log, scansStarted, quotaPassed, hist>>

\* Mutant: viewing the details counts as a scan.
DetailCountingView(p, id) ==
    /\ Accepts(p)
    /\ IF id \notin DOMAIN qrcodes
       THEN /\ Respond(p, ExpressResp("detail", 404, id, Null, NoData))
            /\ UNCHANGED qrcodes
       ELSE /\ Respond(p, ExpressResp("detail", 200, id, Null, NoData))
            /\ qrcodes' = [qrcodes EXCEPT ![id].totalScans = @ + 1]
    /\ UNCHANGED <<users, sessions, now, nextId, issued, assigned,
                   redirects, log, scansStarted, quotaPassed, hist>>

\* GET /api/qr/:id: no middleware sets req.user, so isOwner is falsy and
\* the response carries no analytics.
Detail(p, id) ==
    /\ Accepts(p)
    /\ IF id \notin DOMAIN qrcodes
       THEN Respond(p, ExpressResp("detail", 404, id, Null, NoData))
       ELSE Respond(p, ExpressResp("detail", 200, id, Null, NoData))
    /\ UNCHANGED <<qrcodes, users, sessions, now, nextId, issued, assigned,
                   redirects, log, scansStarted, quotaPassed, hist>>

----------------------------------------------------------------------------
(* routes/analytics.ts helper functions.  Timestamps here are clock ticks,  *)
(* DayTicks of them to a calendar day; a user agent is a character         *)
(* sequence, the empty one standing for a missing header.                  *)

\* date.toISOString().split('T')[0]: the calendar day of a timestamp
DateOf(ts) == ts \div DayTicks

RECURSIVE SortedDates(_)
\* .sort((a, b) => a.date.localeCompare(b.date)) over the map's keys
SortedDates(dates) ==
    IF dates = {} THEN << >>
    ELSE LET first == CHOOSE d \in dates : \A e \in dates : d <= e
         IN  <<first>> \o SortedDates(dates \ {first})

\* getDailyScans: WindowDays buckets set to 0, today's going back, then one
\* count per event at or after thirtyDaysAgo under the event's own date.
GetDailyScans(scanHistory, t) ==
    LET thirtyDaysAgo == t - WindowDays * DayTicks
        initialized == {DateOf(t - i * DayTicks) : i \in 0..(WindowDays - 1)}
        counted == {i \in DOMAIN scanHistory :
                      scanHistory[i].timestamp >= thirtyDaysAgo}
        dates == initialized
                 \cup {DateOf(scanHistory[i].timestamp) : i \in counted}
        sorted == SortedDates(dates)
    IN  [k \in DOMAIN sorted |->
           [date |-> sorted[k],
            scans |-> Cardinality({i \in counted :
                         DateOf(scanHistory[i].timestamp) = sorted[k]})]]

\* ua.includes(word)
Includes(s, word) ==
    \E i \in 1..(Len(s) - Len(word) + 1) : SubSeq(s, i, i + Len(word) - 1) = word

WMobile == <<"m", "o", "b", "i", "l", "e">>
WAndroid == <<"a", "n", "d", "r", "o", "i", "d">>
WIphone == <<"i", "p", "h", "o", "n", "e">>
WTablet == <<"t", "a", "b", "l", "e", "t">>
WIpad == <<"i", "p", "a", "d">>
WBot == <<"b", "o", "t">>
WCrawler == <<"c", "r", "a", "w", "l", "e", "r">>

\* Mutant: the user agent is tested as sent, without toLowerCase().
DeviceOfCaseSensitive(userAgent) ==
    LET ua == userAgent IN
    IF Includes(ua, WMobile) \/ Includes(ua, WAndroid) \/ Includes(ua, WIphone)
    THEN "Mobile"
    ELSE IF Includes(ua, WTablet) \/ Includes(ua, WIpad) THEN "Tablet"
    ELSE IF Includes(ua, WBot) \/ Includes(ua, WCrawler) THEN "Bot"
    ELSE "Desktop"

\* The if / else if chain of getDeviceStats
DeviceOf(userAgent) ==
    LET ua == ToLowerCase(userAgent) IN
    IF Includes(ua, WMobile) \/ Includes(ua, WAndroid) \/ Includes(ua, WIphone)
    THEN "Mobile"
    ELSE IF Includes(ua, WTablet) \/ Includes(ua, WIpad) THEN "Tablet"
    ELSE IF Includes(ua, WBot) \/ Includes(ua, WCrawler) THEN "Bot"
    ELSE "Desktop"

\* Math.round((count / total) * 100), halves rounded up
RoundPercent(count, total) == (200 * count + total) \div (2 * total)

RECURSIVE DeviceKeys(_)
\* The keys of deviceMap in insertion order: the devices of the events that
\* have a user agent, each at its first occurrence.
DeviceKeys(scanHistory) ==
    IF scanHistory = << >> THEN << >>
    ELSE LET n == Len(scanHistory)
             before == DeviceKeys(SubSeq(scanHistory, 1, n - 1))
             ua == scanHistory[n].userAgent
         IN  IF ua = << >> \/ \E k \in DOMAIN before : before[k] = DeviceOf(ua)
             THEN before
             ELSE Append(before, DeviceOf(ua))

RECURSIVE SortByCountDesc(_)
\* .sort((a, b) => b.count - a.count): stable, larger counts first
SortByCountDesc(entries) ==
    IF entries = << >> THEN << >>
    ELSE LET k == CHOOSE i \in DOMAIN entries :
                     /\ \A j \in DOMAIN entries : entries[j].count <= entries[i].count
                     /\ \A j \in 1..(i - 1) : entries[j].count < entries[i].count
         IN  <<entries[k]>>
             \o SortByCountDesc(SubSeq(entries, 1, k - 1)
                                \o SubSeq(entries, k + 1, Len(entries)))

\* getDeviceStats: total is scanHistory.length
GetDeviceStats(scanHistory) ==
    LET total == Len(scanHistory)
        keys == DeviceKeys(scanHistory)
        count(device) ==
            Cardinality({i \in DOMAIN scanHistory :
                           /\ scanHistory[i].userAgent # << >>
                           /\ DeviceOf(scanHistory[i].userAgent) = device})
    IN  SortByCountDesc(
            [k \in DOMAIN keys |->
               [device |-> keys[k], count |-> count(keys[k]),
                percentage |-> IF total > 0
                               THEN RoundPercent(count(keys[k]), total) ELSE 0]])

\* The chart part of the body of GET /api/analytics/qr/:id
StatsBody(doc, t) ==
    [kind |-> "stats", status |-> 200, totalScans |-> doc.totalScans,
     dailyScans |-> GetDailyScans(doc.scanHistory, t),
     deviceStats |-> GetDeviceStats(doc.scanHistory)]

\* GET /api/analytics/qr/:id by the owner of link id, entitled to analytics
AnalyticsStats(p, id) ==
    /\ Accepts(p)
    /\ id \in DOMAIN qrcodes
    /\ resp # StatsBody(qrcodes[id], now)
    /\ Respond(p, StatsBody(qrcodes[id], now))
    /\ UNCHANGED <<qrcodes, users, sessions, now, nextId, issued, assigned,
                   redirects, log, scansStarted, quotaPassed, hist>>

RECURSIVE OwnedLinks(_, _)
\* QRCodeModel.find({ userId }): the owner's links among ids, in store order
OwnedLinks(u, ids) ==
    IF ids = {} THEN << >>
    ELSE LET first == CHOOSE i \in ids : \A j \in ids : i <= j
         IN  (IF qrcodes[first].userId = u THEN <<first>> ELSE << >>)
             \o OwnedLinks(u, ids \ {first})

RECURSIVE SortByKeyDesc(_)
\* Array.prototype.sort with (a, b) => b.key - a.key: stable, larger first
SortByKeyDesc(entries) ==
    IF entries = << >> THEN << >>
    ELSE LET k == CHOOSE i \in DOMAIN entries :
                     /\ \A j \in DOMAIN entries : entries[j].key <= entries[i].key
                     /\ \A j \in 1..(i - 1) : entries[j].key < entries[i].key
         IN  <<entries[k]>>
             \o SortByKeyDesc(SubSeq(entries, 1, k - 1)
                              \o SubSeq(entries, k + 1, Len(entries)))

\* .slice(0, n)
SliceFirst(seq, n) == SubSeq(seq, 1, Min(n, Len(seq)))

RECURSIVE FlatMapRecent(_, _)
\* qrCodes.flatMap(qr => scanHistory.filter(timestamp >= thirtyDaysAgo).map(...))
FlatMapRecent(ids, thirtyDaysAgo) ==
    IF ids = << >> THEN << >>
    ELSE LET h == qrcodes[Head(ids)].scanHistory
             kept == SelectSeq(h, LAMBDA e : e.timestamp >= thirtyDaysAgo)
         IN  [i \in DOMAIN kept |->
                [qrCodeId |-> Head(ids), key |-> kept[i].timestamp]]
             \o FlatMapRecent(Tail(ids), thirtyDaysAgo)

\* Mutant: topPerforming is cut from the links in store order.
TopPerformingUnsorted(ids) ==
    SliceFirst([i \in DOMAIN ids |->
                  [id |-> ids[i], key |-> qrcodes[ids[i]].totalScans]], TopLinks)

\* qrCodes.sort(by totalScans, descending).slice(0, 10).map(...)
TopPerforming(ids) ==
    SliceFirst(SortByKeyDesc([i \in DOMAIN ids |->
                  [id |-> ids[i], key |-> qrcodes[ids[i]].totalScans]]), TopLinks)

\* The body of GET /api/analytics/dashboard: overview, recentActivity and
\* topPerforming (key is the timestamp, resp. totalScans, of an entry)
DashboardBody(u, t) ==
    LET ids == OwnedLinks(u, DOMAIN qrcodes)
        thirtyDaysAgo == t - WindowDays * DayTicks
        recent == FlatMapRecent(ids, thirtyDaysAgo)
    IN  [kind |-> "dashboard", status |-> 200, userId |-> u,
         totalQRCodes |-> Len(ids),
         activeQRCodes |-> Cardinality({i \in DOMAIN ids : qrcodes[ids[i]].isActive}),
         totalScans |-> SumTotalScans({ids[i] : i \in DOMAIN ids}),
         scansThisMonth |-> Len(recent),
         recentActivity |-> SliceFirst(SortByKeyDesc(recent), RecentEvents),
         topPerforming |-> TopPerforming(ids)]

\* GET /api/analytics/dashboard with a token signed for u: the feature gate,
\* find({ userId }) and the aggregation
DashboardStats(p, u) ==
    /\ Accepts(p)
    /\ LET r == IF ~users[u].limits.canTrackAnalytics
                THEN ExpressResp("dashboard", 403, 0, u, NoData)
                ELSE DashboardBody(u, now)
       IN  resp # r /\ Respond(p, r)
    /\ UNCHANGED <<qrcodes, users, sessions, now, nextId, issued, assigned,
                   redirects, log, scansStarted, quotaPassed, hist>>

----------------------------------------------------------------------------
(* sanitizeUrl and validateUrl applied to one input *)

UrlResp(inputUrl) ==
    [kind |-> "url",
     status |-> IF ValidateUrl(SanitizeUrl(inputUrl)) THEN 200 ELSE 400,
     inputUrl |-> inputUrl,
     url |-> SanitizeUrl(inputUrl),
     valid |-> ValidateUrl(SanitizeUrl(inputUrl)),
     validProtocol |-> ValidateUrlProtocol(SanitizeUrl(inputUrl))]

\* `sanitizedUrl = sanitizeUrl(url); if (!validateUrl(sanitizedUrl)) ...`
UrlUtils(p) ==
    /\ pc[p] = "url"
    /\ Respond(p, UrlResp(local[p].inputUrl))
    /\ UNCHANGED <<qrcodes, users, sessions, now, nextId, issued, assigned,
                   redirects, log, scansStarted, quotaPassed, hist>>

----------------------------------------------------------------------------
(* A store operation that fails *)

\* The store operation a creation awaits (countDocuments, qrCode.save() or
\* currentUser.save()) rejects because the store is unreachable: the
\* handler's outer catch answers 500.
GenerateStoreFails(p) ==
    /\ pc[p] \in GenPcs
    /\ Respond(p, GenResp(500, local[p], 0))
    /\ UNCHANGED <<qrcodes, users, sessions, now, nextId, issued, assigned,
                   redirects, log, scansStarted, quotaPassed, hist>>

----------------------------------------------------------------------------
(* The in-memory server variants: qrCodes is a Map keyed by shortId *)

\* qrCodeData
NewMemQRCode(userId, url, shortId) ==
    [userId |-> userId, url |-> url, shortId |-> shortId,
     title |-> "Untitled QR Code", description |-> "", isActive |-> TRUE,
     totalScans |-> 0, lastScanned |-> NoDate]

\* parseJSON, getUserFromToken, the URL checks, the plan limit check over
\* qrCodes.values(), generateShortId(), up to `await QRCode.toDataURL`.
\* nextId counts the creations stored so far.
MemGenerateBegin(p, hdr, inputUrl, shortId, limit) ==
    /\ Accepts(p)
    /\ nextId + InFlight({"mem_store"}) <= limit
    /\ sessions' = SessionsAfterLookup(hdr)
    /\ LET user == GetUserFromToken(hdr)
           l == [op |-> "generate", hdr |-> hdr, user |-> user,
                 inputUrl |-> inputUrl, url |-> SanitizeUrl(inputUrl),
                 shortId |-> shortId]
       IN  IF inputUrl = NoUrl \/ ~ValidateUrl(SanitizeUrl(inputUrl))
           THEN /\ Respond(p, GenResp(400, l, 0))
                /\ UNCHANGED issued
           ELSE IF user.id # Null
                   /\ PlanLimitReached(user, CountDocuments(user.id))
           THEN /\ Respond(p, GenResp(403, l, 0))
                /\ UNCHANGED issued
           ELSE /\ Suspend(p, "mem_store", l)
                /\ issued' = issued \cup {shortId}
    /\ UNCHANGED <<qrcodes, users, now, nextId, assigned, redirects, log,
                   scansStarted, quotaPassed, hist>>

\* `currentUser.usage.qrCodesCreated += 1` on the object held by the users
\* Map, then `qrCodes.set(shortId, qrCodeData)`.
MemGenerateStore(p) ==
    /\ pc[p] = "mem_store"
    /\ LET l == local[p] IN
       /\ qrcodes' = (l.shortId :> NewMemQRCode(l.user.id, l.url, l.shortId))
                        @@ qrcodes
       /\ users' = IF l.user.id # Null
                   THEN [users EXCEPT ![l.user.id].qrCodesCreated = @ + 1]
                   ELSE users
       /\ nextId' = nextId + 1
       /\ Respond(p, GenResp(200, l, l.shortId))
    /\ UNCHANGED <<sessions, now, issued, assigned, redirects, log,
                   scansStarted, quotaPassed, hist>>

\* GET /r/:shortId: qrCodes.get, totalScans += 1, lastScanned, qrCodes.set,
\* with no await in between.
MemResolve(p, shortId, limit) ==
    /\ Accepts(p)
    /\ IF shortId \notin DOMAIN qrcodes
       THEN /\ Respond(p, [kind |-> "resolve", status |-> 404,
                           shortId |-> shortId, location |-> NoUrl])
            /\ UNCHANGED <<qrcodes, now, scansStarted>>
       ELSE /\ scansStarted < limit
            /\ qrcodes' = [qrcodes EXCEPT ![shortId].totalScans = @ + 1,
                                          ![shortId].lastScanned = now + 1]
            /\ now' = now + 1
            /\ scansStarted' = scansStarted + 1
            /\ Respond(p, [kind |-> "resolve", status |-> 302,
                           shortId |-> shortId,
                           location |-> qrcodes[shortId].url])
    /\ UNCHANGED <<users, sessions, nextId, issued, assigned, redirects, log,
                   quotaPassed, hist>>

----------------------------------------------------------------------------
(* Initial states *)

ExCo == <<"h", "t", "t", "p", "s", ":", "/", "/", "e", "x", ".", "c", "o">>

\* The store after k resolutions of link 1 served one after another, the
\* first at time 2, lastScanned read in the millisecond of the event (SpecSeq
\* reaches these stores).
ScannedLink(k) ==
    [NewQRCode([id |-> "u1", plan |-> "free"], ExCo, 1) EXCEPT
        !.totalScans = k,
        !.lastScanned = IF k = 0 THEN NoDate ELSE k + 1,
        !.scanHistory = [i \in 1..k |-> ScanData(i + 1, "iPhone")],
        !.v = k]

\* One account per plan of the schema's enum, with the limits the pre-save
\* hook sets for the plan.
InitAccounts ==
    [u \in Users |-> CASE u = "u1" -> Account("free", 0)
                       [] u = "u2" -> Account("pro", 0)
                       [] OTHER -> Account("enterprise", 0)]

InitCommon ==
    /\ sessions = << >>
    /\ pc = [p \in Procs |-> "idle"]
    /\ local = [p \in Procs |-> NoLocal]
    /\ resp = NoResp
    /\ scansStarted = 0
    /\ quotaPassed = [u \in Users |-> 0]
    /\ hist = [reactivated |-> {}, resolvedAfter |-> {}]

\* A fresh deployment: empty collections but for the accounts.
Init ==
    /\ InitCommon
    /\ qrcodes = << >>
    /\ users = InitAccounts
    /\ now = 1
    /\ nextId = 1
    /\ issued = {}
    /\ assigned = << >>
    /\ redirects = << >>
    /\ log = << >>

\* A store holding one link of u1 that has been resolved k times.
InitScanned(k) ==
    /\ InitCommon
    /\ qrcodes = (1 :> ScannedLink(k))
    /\ users = [InitAccounts EXCEPT !["u1"].qrCodesCreated = 1]
    /\ now = k + 1
    /\ nextId = 2
    /\ issued = {1}
    /\ assigned = (1 :> {1})
    /\ redirects = (1 :> k)
    /\ log = (1 :> << >>)

----------------------------------------------------------------------------
(* SpecSeq: resolutions of one link served one after another *)

InitSeq == InitScanned(0)

NextSeq ==
    \/ \E sid \in 1..2, ua \in UserAgents : ResolveLoad(1, sid, ua, MaxSeqScans)
    \/ ResolveSave(1)

SpecSeq == InitSeq /\ [][NextSeq]_vars

----------------------------------------------------------------------------
(* SpecScan: overlapping resolutions, updates and deletes of one link of   *)
(* u1 that has never been resolved                                         *)

ScanHeaders == {[kind |-> "none", token |-> Null],
                [kind |-> "bearer", token |-> "t1"]}

InitScan == InitScanned(0)

ScanRequests(limit) ==
    \/ \E p \in Procs, shortId \in 1..2, ua \in UserAgents :
         ResolveLoad(p, shortId, ua, limit)
    \/ \E p \in Procs : ResolveSave(p)
    \/ \E p \in Procs, hdr \in ScanHeaders, body \in UpdateBodies :
         UpdateLoad(p, hdr, 1, body)
    \/ \E p \in Procs : UpdateSave(p)
    \/ \E p \in Procs, hdr \in ScanHeaders : DeleteLoad(p, hdr, 1)
    \/ \E p \in Procs : DeleteRemove(p)
    \/ \E p \in Procs : DeleteUserSave(p)
    \/ Login("u1", "t1")

NextScan == ScanRequests(MaxScans)

SpecScan == InitScan /\ [][NextScan]_vars

\* SpecCap: the same requests on a link one scan short of the history cap
\* (the store SpecSeq reaches after HistoryCap - 1 resolutions).
InitCap == InitScanned(HistoryCap - 1)

\* The owner deactivates and reactivates the link.
CapBodies == {b \in UpdateBodies : b.fields = {"isActive"}}

NextCap ==
    \/ \E p \in Procs, ua \in UserAgents : ResolveLoad(p, 1, ua, MaxCapScans)
    \/ \E p \in Procs : ResolveSave(p)
    \/ \E p \in Procs, body \in CapBodies :
         UpdateLoad(p, [kind |-> "bearer", token |-> "t1"], 1, body)
    \/ \E p \in Procs : UpdateSave(p)
    \/ \E p \in Procs : DeleteLoad(p, [kind |-> "bearer", token |-> "t1"], 1)
    \/ \E p \in Procs : DeleteRemove(p)
    \/ \E p \in Procs : DeleteUserSave(p)
    \/ Login("u1", "t1")

SpecCap == InitCap /\ [][NextCap]_vars

----------------------------------------------------------------------------
(* SpecLife: one link of u1 resolved, deactivated, reactivated and listed  *)
(* by overlapping requests; nothing deletes it                             *)

NextLife ==
    \/ \E p \in Procs, shortId \in 1..2, ua \in UserAgents :
         ResolveLoad(p, shortId, ua, MaxScans)
    \/ \E p \in Procs : ResolveSave(p)
    \/ \E p \in Procs, hdr \in ScanHeaders, body \in UpdateBodies :
         UpdateLoad(p, hdr, 1, body)
    \/ \E p \in Procs : UpdateSave(p)
    \/ \E p \in Procs, hdr \in ScanHeaders : ListLinks(p, hdr)
    \/ Login("u1", "t1")

SpecLife == InitScan /\ [][NextLife]_vars

----------------------------------------------------------------------------
(* SpecRead: the read routes (list, detail, per-link analytics, dashboard, *)
(* export) overlapping resolutions and billing events; u1 (free) owns      *)
(* link 1 and u2 (pro) owns link 2                                         *)

InitRead ==
    /\ InitCommon
    /\ qrcodes = (1 :> NewQRCode([id |-> "u1", plan |-> "free"], ExCo, 1))
                 @@ (2 :> NewQRCode([id |-> "u2", plan |-> "pro"], ExCo, 2))
    /\ users = [InitAccounts EXCEPT !["u1"].qrCodesCreated = 1,
                                    !["u2"].qrCodesCreated = 1]
    /\ now = 1
    /\ nextId = 3
    /\ issued = {1, 2}
    /\ assigned = (1 :> {1}) @@ (2 :> {2})
    /\ redirects = (1 :> 0) @@ (2 :> 0)
    /\ log = (1 :> << >>) @@ (2 :> << >>)

ReadHeaders == {[kind |-> "none", userId |-> Null],
                [kind |-> "jwt", userId |-> "u1"],
                [kind |-> "jwt", userId |-> "u2"]}

ReadPcs == {"route_find", "route_count"}

NextRead ==
    \/ \E p \in Procs, ua \in UserAgents : ResolveLoad(p, 2, ua, MaxReadScans)
    \/ \E p \in Procs : ResolveSave(p)
    \/ \E p \in Procs, hdr \in ReadHeaders, route \in AnalyticsRoutes,
          id \in 1..2 :
         InFlight(ReadPcs) = 0 /\ AuthenticateToken(p, hdr, route, id)
    \/ \E p \in Procs : RouteFind(p)
    \/ \E p \in Procs : RouteCount(p)
    \/ \E p \in Procs, id \in 2..3 : Detail(p, id)
    \/ \E p \in Procs, status \in SubscriptionStatuses :
         WebhookLoad(p, "u2", status, ProPriceId)
    \/ \E p \in Procs : WebhookSave(p)

SpecRead == InitRead /\ [][NextRead]_vars

----------------------------------------------------------------------------
(* SpecEdit: updates and deletions by u1 and u2, each owning one link,     *)
(* aimed at either link or at an id no link has, overlapping resolutions   *)

\* The owner at its link, another account at that link, the owner at an id
\* no link has.
EditTargets ==
    {[hdr |-> [kind |-> "bearer", token |-> "t1"], id |-> 1],
     [hdr |-> [kind |-> "bearer", token |-> "t2"], id |-> 1],
     [hdr |-> [kind |-> "bearer", token |-> "t1"], id |-> 3]}

NextEdit ==
    \/ Login("u1", "t1")
    \/ Login("u2", "t2")
    \/ \E p \in Procs, ua \in UserAgents : ResolveLoad(p, 1, ua, MaxEditScans)
    \/ \E p \in Procs : ResolveSave(p)
    \/ \E p \in Procs, t \in EditTargets, body \in UpdateBodies :
         UpdateLoad(p, t.hdr, t.id, body)
    \/ \E p \in Procs : UpdateSave(p)
    \/ \E p \in Procs, t \in EditTargets : DeleteLoad(p, t.hdr, t.id)
    \/ \E p \in Procs : DeleteRemove(p)
    \/ \E p \in Procs : DeleteUserSave(p)

SpecEdit == InitRead /\ [][NextEdit]_vars

----------------------------------------------------------------------------
(* Spec: a fresh deployment serving overlapping creations and deletions by *)
(* u1 and by clients without a valid session, while sessions age           *)

ClockJumps == {SessionTTL, SessionTTL + 1}
ClockLimit == SessionTTL + MaxTicks

Next ==
    \/ Login("u1", "t1")
    \/ \E d \in ClockJumps : AdvanceClock(d, ClockLimit)
    \/ \E p \in Procs, hdr \in AuthHeaders, inputUrl \in UrlInputs,
          size \in SizeInputs, shortId \in ShortIdDraws :
         GenerateBegin(p, hdr, inputUrl, size, shortId, MaxDocs)
    \/ \E p \in Procs, shortId \in ShortIdDraws : GenerateCount(p, shortId)
    \/ \E p \in Procs : GenerateInsert(p)
    \/ \E p \in Procs : GenerateUserSave(p)
    \/ \E p \in Procs, hdr \in AuthHeaders, id \in 1..MaxDocs :
         DeleteLoad(p, hdr, id)
    \/ \E p \in Procs : DeleteRemove(p)
    \/ \E p \in Procs : DeleteUserSave(p)

Spec == Init /\ [][Next]_vars

----------------------------------------------------------------------------
(* SpecCreate: a fresh deployment where links are created, by u1 and by    *)
(* clients without a session, and resolved                                 *)

NextCreate ==
    \/ Login("u1", "t1")
    \/ \E p \in Procs, hdr \in ScanHeaders, inputUrl \in UrlInputs,
          size \in SizeInputs, shortId \in ShortIdDraws :
         GenerateBegin(p, hdr, inputUrl, size, shortId, MaxDocs)
    \/ \E p \in Procs, shortId \in ShortIdDraws : GenerateCount(p, shortId)
    \/ \E p \in Procs : GenerateInsert(p)
    \/ \E p \in Procs : GenerateUserSave(p)
    \/ \E p \in Procs, shortId \in 1..MaxDocs, ua \in UserAgents :
         ResolveLoad(p, shortId, ua, MaxCreateScans)
    \/ \E p \in Procs : ResolveSave(p)

SpecCreate == Init /\ [][NextCreate]_vars

----------------------------------------------------------------------------
(* SpecQuota: creations served one after another, by u1 (free plan) and by *)
(* u3 (enterprise plan), generateShortId never repeating itself            *)

QuotaHeaders == {[kind |-> "bearer", token |-> "t1"],
                 [kind |-> "bearer", token |-> "t2"]}

NextQuota ==
    \/ Login("u1", "t1")
    \/ Login("u3", "t2")
    \/ \E hdr \in QuotaHeaders, size \in SizeInputs :
         GenerateBegin(1, hdr, ExCo, size, 0, MaxQuotaDocs)
    \/ \E shortId \in ShortIdDraws \ issued : GenerateCount(1, shortId)
    \/ GenerateInsert(1)
    \/ GenerateUserSave(1)

SpecQuota == Init /\ [][NextQuota]_vars

----------------------------------------------------------------------------
(* SpecRace: overlapping creations by u1 (free plan)                       *)

NextRace ==
    \/ Login("u1", "t1")
    \/ \E p \in Procs, shortId \in ShortIdDraws :
         GenerateBegin(p, [kind |-> "bearer", token |-> "t1"], ExCo, 256,
                       shortId, MaxRaceDocs)
    \/ \E p \in Procs, shortId \in ShortIdDraws : GenerateCount(p, shortId)
    \/ \E p \in Procs : GenerateInsert(p)
    \/ \E p \in Procs : GenerateUserSave(p)

SpecRace == Init /\ [][NextRace]_vars

----------------------------------------------------------------------------
(* SpecBilling: subscription events for the accounts, on overlapping       *)
(* webhook requests                                                        *)

NextBilling ==
    \/ \E p \in Procs, u \in Users, status \in SubscriptionStatuses,
          priceId \in PriceIds :
         WebhookLoad(p, u, status, priceId)
    \/ \E p \in Procs : WebhookSave(p)

SpecBilling == Init /\ [][NextBilling]_vars

----------------------------------------------------------------------------
(* SpecStats: the helper functions of the analytics routes applied to the  *)
(* scan history of one link of u2, over bounded histories and clocks       *)

StatDay == 40

\* Today at midnight and later in the day.
StatNows == {StatDay * DayTicks, StatDay * DayTicks + 1}

\* The day before the window's first full day, around thirtyDaysAgo; the
\* first full day; today.
StatTimestamps ==
    {(StatDay - WindowDays) * DayTicks - 1, (StatDay - WindowDays) * DayTicks,
     (StatDay - WindowDays) * DayTicks + 1,
     (StatDay - WindowDays + 1) * DayTicks, StatDay * DayTicks}

\* No header, iPhone, Googlebot, iPad, an Android tablet, a desktop browser.
StatUserAgents ==
    {<< >>,
     <<"i", "P", "h", "o", "n", "e">>,
     <<"G", "o", "o", "g", "l", "e", "b", "o", "t">>,
     <<"i", "P", "a", "d">>,
     <<"A", "n", "d", "r", "o", "i", "d", " ", "T", "a", "b", "l", "e", "t">>,
     <<"M", "o", "z">>}

StatEvents ==
    {[timestamp |-> ts, userAgent |-> ua] : ts \in StatTimestamps,
                                            ua \in StatUserAgents}

\* Histories as the redirect handler leaves them: in order of recording.
StatHistories ==
    {h \in UNION {[1..n -> StatEvents] : n \in 0..MaxStatEvents} :
       \A i \in 1..(Len(h) - 1) : h[i].timestamp <= h[i + 1].timestamp}

InitStats ==
    /\ InitCommon
    /\ \E h \in StatHistories :
         qrcodes = (1 :> [NewQRCode([id |-> "u2", plan |-> "pro"], ExCo, 1)
                            EXCEPT !.totalScans = Len(h),
                                   !.lastScanned = IF h = << >> THEN NoDate
                                                   ELSE h[Len(h)].timestamp,
                                   !.scanHistory = h,
                                   !.v = Len(h)])
    /\ users = [InitAccounts EXCEPT !["u2"].qrCodesCreated = 1]
    /\ now \in StatNows
    /\ nextId = 2
    /\ issued = {1}
    /\ assigned = (1 :> {1})
    /\ redirects = (1 :> Len(qrcodes[1].scanHistory))
    /\ log = (1 :> << >>)

NextStats == \E p \in Procs : AnalyticsStats(p, 1)

SpecStats == InitStats /\ [][NextStats]_vars

----------------------------------------------------------------------------
(* SpecDash: the dashboard of u2 (pro) over stores of up to MaxDashLinks   *)
(* links of u2 beside one link of u1 (free)                                *)

\* totalScans of the i-th of n links: rising, falling, equal, or mixed.
DashPatterns == {"rising", "falling", "equal", "mixed"}

DashScans(pattern, i, n) ==
    CASE pattern = "rising" -> i
      [] pattern = "falling" -> n - i
      [] pattern = "equal" -> 1
      [] OTHER -> (7 * i) % 5

\* The i-th link's history: k events in order of recording, inside the
\* window but for the first event of every third link.
DashHistory(i, k, t) ==
    [j \in 1..k |->
       [timestamp |-> IF j = 1 /\ k > 1 /\ i % 3 = 0
                      THEN t - WindowDays * DayTicks - 1
                      ELSE t - ((5 * i + (k - j)) % (WindowDays * DayTicks)),
        userAgent |-> <<"i", "P", "h", "o", "n", "e">>]]

DashLink(i, n, pattern, k, t) ==
    [NewQRCode([id |-> "u2", plan |-> "pro"], ExCo, i) EXCEPT
        !.isActive = (i % 2 = 1),
        !.totalScans = DashScans(pattern, i, n) + k,
        !.lastScanned = IF k = 0 THEN NoDate ELSE DashHistory(i, k, t)[k].timestamp,
        !.scanHistory = DashHistory(i, k, t),
        !.v = k]

InitDash ==
    /\ InitCommon
    /\ now \in StatNows
    /\ \E n \in 0..MaxDashLinks, pattern \in DashPatterns, k \in 0..MaxLinkEvents :
         /\ qrcodes = [i \in 1..(n + 1) |->
                         IF i <= n THEN DashLink(i, n, pattern, k, now)
                         ELSE [NewQRCode([id |-> "u1", plan |-> "free"], ExCo, i)
                                 EXCEPT !.totalScans = 50]]
         /\ users = [InitAccounts EXCEPT !["u1"].qrCodesCreated = 1,
                                         !["u2"].qrCodesCreated = n]
         /\ nextId = n + 2
         /\ issued = 1..(n + 1)
         /\ assigned = [i \in 1..(n + 1) |-> {i}]
         /\ redirects = [i \in 1..(n + 1) |-> qrcodes[i].totalScans]
         /\ log = [i \in 1..(n + 1) |-> << >>]

NextDash == \E p \in Procs, u \in {"u1", "u2"} : DashboardStats(p, u)

SpecDash == InitDash /\ [][NextDash]_vars

----------------------------------------------------------------------------
(* SpecPremium: u1, on the free plan at first, creates a link while       *)
(* billing events move the account between free and pro and the link is   *)
(* updated and resolved                                                    *)

PremiumHeader == [kind |-> "bearer", token |-> "t1"]

NextPremium ==
    \/ Login("u1", "t1")
    \/ \E p \in Procs : GenerateBegin(p, PremiumHeader, ExCo, 256, 0, MaxPremiumDocs)
    \/ \E p \in Procs : GenerateCount(p, FreshShortId)
    \/ \E p \in Procs : GenerateInsert(p)
    \/ \E p \in Procs : GenerateUserSave(p)
    \/ \E p \in Procs, status \in SubscriptionStatuses :
         WebhookLoad(p, "u1", status, ProPriceId)
    \/ \E p \in Procs : WebhookSave(p)
    \/ \E p \in Procs :
         UpdateLoad(p, PremiumHeader, 1,
                    [fields |-> {"title", "description"}, title |-> "Menu",
                     description |-> "Lunch", isActive |-> TRUE])
    \/ \E p \in Procs : UpdateSave(p)
    \/ \E p \in Procs, ua \in UserAgents : ResolveLoad(p, 1, ua, MaxPremiumScans)
    \/ \E p \in Procs : ResolveSave(p)

SpecPremium == Init /\ [][NextPremium]_vars

----------------------------------------------------------------------------
(* SpecUrl: the URL utilities applied to one non-empty input (an empty one  *)
(* is refused by the handler's `if (!url)` before sanitizeUrl is called)   *)

UrlChars == {"a", ".", "/", ":", " ", "@"}

UrlPads == {<<>>, <<" ">>}

UrlSchemeParts ==
    {<<>>, Https, Http,
     <<"H", "T", "T", "P", ":", "/", "/">>,
     <<"h", "t", "t", "p", "s", ":">>,
     <<"h", "t", "t", "p", ":", "/">>,
     <<"f", "t", "p", ":", "/", "/">>,
     <<"m", "a", "i", "l", "t", "o", ":">>}

UrlBodies ==
    UNION {[1..n -> UrlChars] : n \in 0..MaxUrlBody}
    \cup {<<"e", "x", ".", "c", "o">>,
          <<"a", ":", "8">>,
          <<"a", ".", "a", ":", "8", "0", "/", "a">>,
          <<"a", ":", "9", "9", "9", "9", "9">>}

UrlCandidates ==
    {pad \o scheme \o body :
       pad \in UrlPads, scheme \in UrlSchemeParts, body \in UrlBodies} \ {NoUrl}

InitUrl ==
    /\ sessions = << >>
    /\ resp = NoResp
    /\ scansStarted = 0
    /\ quotaPassed = [u \in Users |-> 0]
    /\ hist = [reactivated |-> {}, resolvedAfter |-> {}]
    /\ qrcodes = << >>
    /\ users = InitAccounts
    /\ now = 1
    /\ nextId = 1
    /\ issued = {}
    /\ assigned = << >>
    /\ redirects = << >>
    /\ log = << >>
    /\ \E inputUrl \in UrlCandidates :
         /\ pc = [p \in Procs |-> IF p = 1 THEN "url" ELSE "idle"]
         /\ local = [p \in Procs |->
                       IF p = 1 THEN [op |-> "url", inputUrl |-> inputUrl]
                       ELSE NoLocal]

NextUrl == \E p \in Procs : UrlUtils(p)

SpecUrl == InitUrl /\ [][NextUrl]_vars

----------------------------------------------------------------------------
(* SpecCore: resolutions, creations and deletions overlapping on a store    *)
(* where u1 (free plan) is logged in and one link short of its limit       *)

CoreLinks == 1..(FreeMaxQRCodes - 1)

CoreHeaders == {[kind |-> "none", token |-> Null],
                [kind |-> "bearer", token |-> "t1"]}

InitCore ==
    /\ sessions = ("t1" :> [userId |-> "u1", expiresAt |-> 1 + SessionTTL])
    /\ pc = [p \in Procs |-> "idle"]
    /\ local = [p \in Procs |-> NoLocal]
    /\ resp = NoResp
    /\ scansStarted = 0
    /\ quotaPassed = [u \in Users |-> IF u = "u1" THEN FreeMaxQRCodes - 1 ELSE 0]
    /\ hist = [reactivated |-> {}, resolvedAfter |-> {}]
    /\ qrcodes = [id \in CoreLinks |->
                    NewQRCode([id |-> "u1", plan |-> "free"], ExCo, id)]
    /\ users = [InitAccounts EXCEPT !["u1"].qrCodesCreated = FreeMaxQRCodes - 1]
    /\ now = 1
    /\ nextId = FreeMaxQRCodes
    /\ issued = CoreLinks
    /\ assigned = [id \in CoreLinks |-> {id}]
    /\ redirects = [id \in CoreLinks |-> 0]
    /\ log = [id \in CoreLinks |-> << >>]

\* A destination that is accepted and one that is refused.
CoreUrls == {u \in UrlInputs : u # NoUrl /\ ~HasProtocol(Trim(u))}

\* generateShortId() draws the identifier of link 1 again, or a new one.
CoreDraws == ShortIdDraws \cap {1, FreshShortId}

CorePcs == {"res_save", "gen_count", "gen_insert", "gen_usersave",
            "del_remove", "del_usersave"}

\* The continuation of the request suspended in slot p.
CoreContinue(p) ==
    \/ ResolveSave(p)
    \/ \E shortId \in CoreDraws : GenerateCount(p, shortId)
    \/ GenerateInsert(p)
    \/ GenerateUserSave(p)
    \/ DeleteRemove(p)
    \/ DeleteUserSave(p)

NextCore ==
    \/ \E p \in Procs, hdr \in CoreHeaders, inputUrl \in CoreUrls,
          shortId \in CoreDraws :
         GenerateBegin(p, hdr, inputUrl, 256, shortId,
                       FreeMaxQRCodes - 1 + MaxCoreNew)
    \/ \E p \in Procs, hdr \in CoreHeaders : GenerateReject(p, hdr)
    \/ \E p \in Procs, shortId \in {1, FreeMaxQRCodes}, ua \in UserAgents :
         ResolveLoad(p, shortId, ua, MaxCoreScans)
    \/ \E p \in Procs : DeleteLoad(p, [kind |-> "bearer", token |-> "t1"], 1)
    \/ \E p \in Procs : CoreContinue(p)

SpecCore == InitCore /\ [][NextCore]_vars

\* Every awaited store operation returns or throws: a suspended handler is
\* resumed.
SpecCoreFair == SpecCore /\ \A p \in Procs : WF_vars(CoreContinue(p))

----------------------------------------------------------------------------
(* SpecMem: the in-memory variant on a fresh start: creations by u1 and by  *)
(* clients without a session, and resolutions                              *)

\* generateShortId() draws the first identifier again, or a new one.
MemDraws == ShortIdDraws \cap {1, FreshShortId}

MemUrls == {u \in UrlInputs : u # NoUrl}

NextMem ==
    \/ Login("u1", "t1")
    \/ \E p \in Procs, hdr \in ScanHeaders, inputUrl \in MemUrls,
          shortId \in MemDraws :
         MemGenerateBegin(p, hdr, inputUrl, shortId, MaxMemDocs)
    \/ \E p \in Procs : MemGenerateStore(p)
    \/ \E p \in Procs, shortId \in 1..2 : MemResolve(p, shortId, MaxMemScans)

SpecMem == Init /\ [][NextMem]_vars

----------------------------------------------------------------------------
(* SpecFail: creations by u1 and by clients without a session on a store    *)
(* whose operations may fail                                               *)

NextFail ==
    \/ Login("u1", "t1")
    \/ \E p \in Procs, hdr \in ScanHeaders, inputUrl \in UrlInputs,
          size \in SizeInputs :
         GenerateBegin(p, hdr, inputUrl, size, FreshShortId, MaxFailDocs)
    \/ \E p \in Procs : GenerateCount(p, FreshShortId)
    \/ \E p \in Procs : GenerateInsert(p)
    \/ \E p \in Procs : GenerateUserSave(p)
    \/ \E p \in Procs : GenerateStoreFails(p)

SpecFail == Init /\ [][NextFail]_vars

----------------------------------------------------------------------------
(* SpecSession: logins, creation requests carrying session tokens, and     *)
(* sessions that age past their expiry                                     *)

\* generateToken() never returns a value it returned before (32 random
\* bytes); the token of a login is named by the time of that login.
GenerateToken(ts) == ts

\* The tokens a client can present: those of every time a login can happen.
SessionTokens == {1} \cup {1 + d : d \in ClockJumps}

SessionHeaders ==
    {[kind |-> "none", token |-> Null]}
    \cup {[kind |-> "bearer", token |-> t] : t \in SessionTokens}

SessionUrls == {u \in UrlInputs : u # NoUrl /\ ~HasProtocol(Trim(u))}

NextSession ==
    \/ \E u \in {"u1", "u2"} : Login(u, GenerateToken(now))
    \/ \E d \in ClockJumps : AdvanceClock(d, ClockLimit)
    \/ \E p \in Procs, hdr \in SessionHeaders, inputUrl \in SessionUrls :
         GenerateBegin(p, hdr, inputUrl, 256, FreshShortId, MaxSessionDocs)
    \/ \E p \in Procs : GenerateCount(p, FreshShortId)
    \/ \E p \in Procs : GenerateInsert(p)
    \/ \E p \in Procs : GenerateUserSave(p)

SpecSession == Init /\ [][NextSession]_vars

----------------------------------------------------------------------------
(* Claims *)

Links == DOMAIN qrcodes

\* C1: resolutions served one after another on an active link that starts
\* with no scans: after k redirects totalScans = k, scanHistory holds
\* min(k, 1000) entries, and they are the last min(k, 1000) recorded events
\* in the order they were recorded (the j-th resolution is stamped j + 1).
C1_SequentialScans ==
    pc[1] = "idle" =>
      LET d == qrcodes[1]
          k == redirects[1]
          n == Min(k, HistoryCap)
      IN  /\ d.totalScans = k
          /\ Len(d.scanHistory) = n
          /\ Len(log[1]) = k
          /\ d.scanHistory = SubSeq(log[1], k - n + 1, k)
          /\ \A i \in 1..n : d.scanHistory[i].timestamp = (k - n) + i + 1

C1_PastCap ==
    /\ pc[1] = "idle"
    /\ redirects[1] = HistoryCap + 2
    /\ Len(qrcodes[1].scanHistory) = HistoryCap
    /\ qrcodes[1].scanHistory[1].timestamp = 4

\* SpecSeq reaches the store SpecCap starts from.
SeqReachesCapStore ==
    /\ pc[1] = "idle"
    /\ qrcodes = (1 :> ScannedLink(HistoryCap - 1))
    /\ now = HistoryCap
    /\ redirects[1] = HistoryCap - 1

\* C2: in every persisted state a link's scanHistory holds at most 1000
\* entries, whatever the interleaving of resolutions, updates and deletes.
C2_HistoryCapped ==
    \A id \in Links : Len(qrcodes[id].scanHistory) <= HistoryCap

\* C3: totalScans of a link never decreases from one persisted state to the
\* next, overlapping resolutions included.
C3_TotalScansMonotone ==
    [][\A id \in Links \cap DOMAIN qrcodes' :
          qrcodes'[id].totalScans >= qrcodes[id].totalScans]_vars

ActiveLinkExists(shortId) ==
    \E id \in Links : qrcodes[id].shortId = shortId /\ qrcodes[id].isActive

\* C4: a resolution whose lookup finds no active link under the identifier
\* (deleted, never created, or deactivated) is answered 404 at once, changes
\* nothing in the store and records no scan; a handler goes on to record a
\* scan and redirect only when its lookup found an active link.
C4_NotFound ==
    [][\A p \in Procs :
          /\ \A sid \in 1..2, ua \in UserAgents :
                (ResolveLoad(p, sid, ua, MaxScans) /\ ~ActiveLinkExists(sid))
                => /\ resp' = [kind |-> "resolve", status |-> 404,
                               shortId |-> sid, location |-> NoUrl]
                   /\ pc'[p] = "idle"
                   /\ UNCHANGED <<qrcodes, redirects, log, scansStarted>>
          /\ (pc[p] # "res_save" /\ pc'[p] = "res_save")
                => ActiveLinkExists(local'[p].shortId)
          /\ (redirects' # redirects /\ pc'[p] # pc[p])
                => pc[p] = "res_save"]_vars

C4_InactiveNotFound ==
    /\ resp.kind = "resolve"
    /\ resp.status = 404
    /\ resp.shortId = 1
    /\ 1 \in Links
    /\ ~qrcodes[1].isActive
    /\ redirects[1] > 0

C4_DeletedNotFound ==
    /\ resp.kind = "resolve"
    /\ resp.status = 404
    /\ resp.shortId = 1
    /\ Links = {}

\* C10: scan recording is load-mutate-save with last-writer-wins: a
\* resolution that loaded the link is redirected (as long as the link is
\* still stored and active when it saves), and its save leaves totalScans at
\* the value it loaded plus one, whatever was saved in between.
C10_LastWriterWins ==
    [][\A p \in Procs :
          (/\ pc[p] = "res_save"
           /\ pc'[p] = "idle"
           /\ local[p].id \in Links
           /\ qrcodes[local[p].id].isActive)
          => /\ resp'.status = 302
             /\ qrcodes'[local[p].id].totalScans = local[p].doc.totalScans]_vars

\* Two redirects served, one scan counted.
C10_LostIncrement ==
    /\ 1 \in Links
    /\ redirects[1] = 2
    /\ qrcodes[1].totalScans = 1

\* C5: an identifier is never assigned to two different links, not even
\* after the link that held it has been deleted.
C5_IdentifierNeverReused ==
    \A s \in DOMAIN assigned : Cardinality(assigned[s]) <= 1

\* C6: creations served one after another for an owner with a finite limit
\* n: while fewer than n attempts have been let through the attempt passes
\* the plan limit check, and from then on every attempt is denied with 403,
\* inserts nothing and leaves the owner's counter alone.
C6_FirstNThenDenied ==
    [][\A u \in Users :
          (/\ pc[1] = "gen_count"
           /\ pc'[1] # "gen_count"
           /\ local[1].user.id = u
           /\ local[1].user.limits.maxQRCodes >= 0)
          => /\ quotaPassed[u] < local[1].user.limits.maxQRCodes
                  => pc'[1] = "gen_insert"
             /\ quotaPassed[u] >= local[1].user.limits.maxQRCodes
                  => /\ pc'[1] = "idle"
                     /\ resp'.status = 403
                     /\ UNCHANGED <<qrcodes, users>>]_vars

\* C7: the plan limit check lets every creation pass for an owner whose
\* limits.maxQRCodes is -1.
C7_UnlimitedAlwaysAllowed ==
    [][\A p \in Procs :
          (/\ pc[p] = "gen_count"
           /\ pc'[p] # "gen_count"
           /\ local[p].user.limits.maxQRCodes = UnlimitedQRCodes)
          => pc'[p] = "gen_insert"]_vars

\* No Authorization header, a malformed one, a token no session holds, or a
\* token whose session has expired.
NoOwnerContext(hdr) ==
    \/ hdr.kind \in {"none", "malformed"}
    \/ /\ hdr.kind = "bearer"
       /\ \/ hdr.token \notin DOMAIN sessions
          \/ sessions[hdr.token].expiresAt < now

\* C8: a creation request without owner context is handled as anonymous: it
\* skips the plan limit check, is never answered 403, its link is stored
\* with no owner, and no account changes.
C8_AnonymousNeverDenied ==
    [][\A p \in Procs :
          /\ (/\ pc[p] = "idle"
              /\ pc'[p] \in GenPcs
              /\ NoOwnerContext(local'[p].hdr))
             => /\ local'[p].user.id = Null
                /\ pc'[p] = "gen_insert"
                /\ users' = users
          /\ (/\ pc[p] = "gen_insert"
              /\ pc'[p] # "gen_insert"
              /\ local[p].user.id = Null)
             => /\ pc'[p] = "idle"
                /\ resp'.kind = "generate"
                /\ resp'.status \in {200, 500}
                /\ users' = users
                /\ resp'.status = 500 => qrcodes' = qrcodes
                /\ resp'.status = 200
                     => /\ DOMAIN qrcodes' = DOMAIN qrcodes \cup {resp'.id}
                        /\ resp'.id \notin DOMAIN qrcodes
                        /\ qrcodes'[resp'.id].userId = Null]_vars

\* A link stored for a request that carried the token of an expired session.
C8_ExpiredTokenStored ==
    /\ resp.kind = "generate"
    /\ resp.status = 200
    /\ resp.hdr = [kind |-> "bearer", token |-> "t1"]
    /\ resp.userId = Null
    /\ resp.id \in Links
    /\ qrcodes[resp.id].userId = Null
    /\ now > SessionTTL + 1
    /\ quotaPassed["u1"] > 0

\* C9: the count and the insert are separate store operations, so
\* overlapping creations of one owner can take the owner past the limit; a
\* request passes the check only while the count is below the limit, so with
\* at most NumProcs requests in flight the links stored plus the requests
\* that have passed the check exceed the limit by less than NumProcs.
C9_ExcessBounded ==
    CountDocuments("u1")
      + Cardinality({p \in Procs : pc[p] = "gen_insert" /\ local[p].user.id = "u1"})
    <= FreeMaxQRCodes + NumProcs - 1

C9_LimitExceeded ==
    CountDocuments("u1") > FreeMaxQRCodes

\* C11: in every persisted state each account's limits are the limits of
\* its current plan, subscription events included.
C11_LimitsMatchPlan ==
    \A u \in Users :
       users[u].plan \in PlanEnum => users[u].limits = PlanLimits(users[u].plan)

\* C12: a save that sets an account's plan to pro leaves the account with
\* the pro limits, whatever its plan and limits were before.
C12_ProLimitsAfterSave ==
    [][\A p \in Procs :
          (/\ pc[p] = "hook_save"
           /\ pc'[p] = "idle"
           /\ local[p].newPlan = "pro"
           /\ resp'.status = 200)
          => /\ users'[local[p].user.id].plan = "pro"
             /\ users'[local[p].user.id].limits = PlanLimits("pro")]_vars

\* The analytics of a link: totalScans, lastScanned and scanHistory.
Analytics(doc) == <<doc.totalScans, doc.lastScanned, doc.scanHistory>>

\* C13: Inactive is not terminal.  Every successful update (deactivation and
\* reactivation among them) leaves the link in the store with its identifier,
\* destination and analytics as they were; a resolution that finds the link
\* active, before or after an inactive period, redirects to that destination;
\* and the owner's list returns the link whether it is active or not.
C13_InactiveNotTerminal ==
    [][/\ 1 \in DOMAIN qrcodes' /\ qrcodes'[1].url = ExCo
         /\ qrcodes'[1].shortId = 1
       /\ \A p \in Procs :
            /\ (pc[p] = "upd_save" /\ pc'[p] = "idle") =>
                  /\ resp'.status = 200
                  /\ Analytics(qrcodes'[1]) = Analytics(qrcodes[1])
                  /\ "isActive" \in local[p].modified =>
                        qrcodes'[1].isActive = local[p].doc.isActive
            /\ (pc[p] = "idle" /\ pc'[p] = "res_save") =>
                  qrcodes[1].isActive /\ local'[p].doc.url = ExCo
            /\ (pc[p] = "res_save" /\ pc'[p] = "idle") =>
                  /\ resp' = [kind |-> "resolve", status |-> 302,
                              shortId |-> 1, location |-> ExCo]
                  /\ qrcodes'[1].isActive = qrcodes[1].isActive
       /\ (resp' # resp /\ resp'.kind = "list" /\ resp'.status = 200) =>
            \E item \in resp'.qrCodes :
               item.id = 1 /\ item.isActive = qrcodes[1].isActive]_vars

\* Two resolutions were served, one of them after the link had been
\* deactivated and reactivated, and both are counted.
C13_ResolvedAfterReactivation ==
    /\ 1 \in hist.resolvedAfter
    /\ \A p \in Procs : pc[p] = "idle"
    /\ resp = [kind |-> "resolve", status |-> 302, shortId |-> 1,
               location |-> ExCo]
    /\ qrcodes[1].isActive /\ qrcodes[1].totalScans = 2
    /\ redirects[1] = 2

ReadKinds == AnalyticsRoutes \cup {"detail"}

\* The step is taken by a read route: it starts, continues or answers one.
ReadStep(p) ==
    \/ pc[p] \in ReadPcs /\ pc'[p] # pc[p]
    \/ pc[p] = "idle" /\ pc'[p] \in ReadPcs
    \/ pc[p] = "idle" /\ pc'[p] = "idle" /\ resp' # resp /\ resp'.kind \in ReadKinds

\* C14: resolution is the only operation that changes analytics.  A step of
\* the list, detail, per-link analytics, dashboard or export route leaves the
\* link collection and the account collection as they were, and whenever the
\* totalScans, lastScanned or scanHistory of a link changes, the step is the
\* save of a resolution.
C14_ReadsLeaveStoreUnchanged ==
    [][/\ \A p \in Procs :
            ReadStep(p) => qrcodes' = qrcodes /\ users' = users
       /\ (\E id \in DOMAIN qrcodes : Analytics(qrcodes'[id]) # Analytics(qrcodes[id]))
            => \E p \in Procs : pc[p] = "res_save" /\ pc'[p] = "idle"]_vars

\* The export route has returned the analytics of a link that was resolved.
C14_ExportAfterScan ==
    /\ resp.kind = "export" /\ resp.status = 200
    /\ resp.data.totalScans >= 1
    /\ resp.data.totalScans = qrcodes[2].totalScans

EditablePaths == {"title", "description", "isActive"}

\* C15: a successful update changes, of the whole store, only the title,
\* description and isActive of its target, and of these only the ones the
\* request supplied: the target keeps its identifier, destination, owner,
\* isPremium and analytics, every other link and every account is unchanged.
C15_UpdateFrame ==
    [][\A p \in Procs :
         (pc[p] = "upd_save" /\ pc'[p] = "idle" /\ resp'.status = 200) =>
            /\ users' = users
            /\ DOMAIN qrcodes' = DOMAIN qrcodes
            /\ \A id \in DOMAIN qrcodes :
                 IF id # local[p].id THEN qrcodes'[id] = qrcodes[id]
                 ELSE \A f \in DOMAIN qrcodes[id] :
                        (f \notin EditablePaths \cap local[p].fields) =>
                           qrcodes'[id][f] = qrcodes[id][f]]_vars

\* An update has renamed link 1 after it was resolved, link 2 being stored.
C15_RenamedAfterScan ==
    /\ resp = EditResp("update", 200, 1, "u1")
    /\ 1 \in DOMAIN qrcodes /\ 2 \in DOMAIN qrcodes
    /\ qrcodes[1].title = "Menu" /\ qrcodes[1].description = "Lunch"
    /\ qrcodes[1].totalScans = 1

\* C16: a successful delete by the owner removes the link from the store and
\* lowers the owner's qrCodesCreated by exactly one, and changes no other
\* link and no other account: the findByIdAndDelete step removes exactly the
\* target, which was stored, and goes on to the counter; the counter step
\* leaves the stored counter one lower than it was.
C16_DeleteDecrementsByOne ==
    [][\A p \in Procs :
         /\ (pc[p] = "del_remove" /\ pc'[p] # "del_remove") =>
               /\ local[p].id \in DOMAIN qrcodes
               /\ qrcodes' = [i \in DOMAIN qrcodes \ {local[p].id} |-> qrcodes[i]]
               /\ users' = users
               /\ pc'[p] = "del_usersave"
         /\ (pc[p] = "del_usersave" /\ pc'[p] = "idle") =>
               /\ resp'.status = 200
               /\ qrcodes' = qrcodes
               /\ users' = [users EXCEPT ![local[p].user.id].qrCodesCreated = @ - 1]]_vars

\* C17: an update or delete by an authenticated requester that names a link
\* of another account is answered like one that names an id no link has:
\* 404 with the same body, the store left as it was; only the owner's
\* request goes on to change the link.
C17_ForeignLinkNotFound ==
    [][/\ (pc' = pc /\ resp' # resp /\ resp'.kind \in {"update", "delete"}
           /\ resp'.userId # Null) =>
            /\ (resp'.id \in DOMAIN qrcodes =>
                  qrcodes[resp'.id].userId # resp'.userId)
            /\ resp' = EditResp(resp'.kind, 404, resp'.id, resp'.userId)
            /\ qrcodes' = qrcodes /\ users' = users
       /\ \A p \in Procs :
            (pc[p] = "idle" /\ pc'[p] \in {"upd_save", "del_remove"}) =>
               /\ local'[p].id \in DOMAIN qrcodes
               /\ qrcodes[local'[p].id].userId = local'[p].user.id]_vars

\* u2 has been answered 404 for link 1, which u1 owns and which is stored.
C17_ForeignTargetRefused ==
    /\ resp.kind \in {"update", "delete"} /\ resp.status = 404
    /\ resp.userId = "u2" /\ resp.id = 1
    /\ 1 \in DOMAIN qrcodes /\ qrcodes[1].userId = "u1"

\* C18: an invalid creation request is rejected before any store access: no
\* request whose size is outside 128..1024 is ever past the handler's checks,
\* waiting on countDocuments, on the insert or on the account save.
C18_InvalidRejectedBeforeStore ==
    \A p \in Procs : pc[p] \in GenPcs => SizeValid(local[p].size)

\* The feature flag a route asks for: canExportData for export,
\* canTrackAnalytics for the per-link and dashboard routes.
Entitled(route, limits) ==
    IF route = "export" THEN limits.canExportData ELSE limits.canTrackAnalytics

GatedRoutes == {"analytics", "dashboard", "export"}

BareDomain == <<"e", "x", ".", "c", "o">>

\* C20: every successful creation stores the sanitized input as the
\* destination (the input itself, trimmed, when it has a protocol, and
\* https:// before it otherwise: ex.co is stored as https://ex.co); its
\* response's shortUrl is <base>/r/<shortId> of the stored link; and the
\* first resolution saved for a link redirects to the stored destination and
\* leaves totalScans = 1.
C20_CreateThenResolve ==
    [][\A p \in Procs :
         /\ (pc[p] = "gen_insert" /\ pc'[p] # "gen_insert"
             /\ qrcodes' # qrcodes) =>
               /\ DOMAIN qrcodes' = DOMAIN qrcodes \cup {nextId}
               /\ qrcodes'[nextId].url =
                     IF HasProtocol(Trim(local[p].inputUrl))
                     THEN Trim(local[p].inputUrl)
                     ELSE Https \o Trim(local[p].inputUrl)
               /\ local[p].inputUrl = BareDomain => qrcodes'[nextId].url = ExCo
               /\ qrcodes'[nextId].shortId = local[p].shortId
               /\ qrcodes'[nextId].totalScans = 0
         /\ (pc[p] \in GenPcs /\ pc'[p] = "idle" /\ resp'.status = 200) =>
               /\ resp'.id \in DOMAIN qrcodes'
               /\ resp'.shortUrl = <<"base", "r", qrcodes'[resp'.id].shortId>>
         /\ (pc[p] = "res_save" /\ pc'[p] = "idle"
             /\ qrcodes[local[p].id].totalScans = 0) =>
               /\ resp' = [kind |-> "resolve", status |-> 302,
                           shortId |-> qrcodes[local[p].id].shortId,
                           location |-> qrcodes[local[p].id].url]
               /\ qrcodes'[local[p].id].totalScans = 1]_vars

\* A link created from the input ex.co has been resolved once.
C20_BareDomainResolvedOnce ==
    \E id \in DOMAIN qrcodes :
       /\ qrcodes[id].url = ExCo /\ qrcodes[id].totalScans = 1
       /\ redirects[id] = 1
       /\ resp = [kind |-> "resolve", status |-> 302,
                  shortId |-> qrcodes[id].shortId, location |-> ExCo]

RECURSIVE SumScans(_)
SumScans(series) ==
    IF series = << >> THEN 0
    ELSE series[1].scans + SumScans(Tail(series))

\* C21: the daily series has exactly WindowDays buckets, one per calendar day
\* of the window, in ascending order of date, and its counts sum to the
\* number of events that pass the filter timestamp >= thirtyDaysAgo.
C21_ThirtyBuckets ==
    resp.kind = "stats" =>
       LET series == resp.dailyScans
           h == qrcodes[1].scanHistory
       IN  /\ Len(series) = WindowDays
           /\ \A k \in 1..(Len(series) - 1) : series[k].date < series[k + 1].date
           /\ SumScans(series) =
                 Cardinality({i \in DOMAIN h :
                    h[i].timestamp >= now - WindowDays * DayTicks})

\* The events of a history that carry a user agent.
WithUserAgent(h) == {i \in DOMAIN h : h[i].userAgent # << >>}

\* C22: events without a user agent are left out of the denominator: every
\* class's percentage is round(count / number of events with a user agent
\* x 100).
C22_ClassifiedDenominator ==
    resp.kind = "stats" =>
       \A k \in DOMAIN resp.deviceStats :
          resp.deviceStats[k].percentage =
             (200 * resp.deviceStats[k].count
                + Cardinality(WithUserAgent(qrcodes[1].scanHistory)))
             \div (2 * Cardinality(WithUserAgent(qrcodes[1].scanHistory)))

\* C23: every scan with a user agent is in exactly one class, chosen by
\* priority without regard to case (iPhone is Mobile, an Android tablet is
\* Mobile, iPad is Tablet, Googlebot is Bot, anything else Desktop); a scan
\* without one is in no class yet counted in totalScans; the class counts
\* sum to the number of scans with a user agent, no class is listed twice,
\* and the classes are listed by count, largest first.
C23_DeviceClasses ==
    resp.kind = "stats" =>
       LET stats == resp.deviceStats
           h == qrcodes[1].scanHistory
           class(ua) ==
              IF ua \in {<<"i", "P", "h", "o", "n", "e">>,
                         <<"A", "n", "d", "r", "o", "i", "d", " ",
                           "T", "a", "b", "l", "e", "t">>} THEN "Mobile"
              ELSE IF ua = <<"i", "P", "a", "d">> THEN "Tablet"
              ELSE IF ua = <<"G", "o", "o", "g", "l", "e", "b", "o", "t">>
              THEN "Bot"
              ELSE "Desktop"
       IN  /\ resp.totalScans = Len(h)
           /\ \A j, k \in DOMAIN stats :
                 stats[j].device = stats[k].device => j = k
           /\ \A k \in DOMAIN stats :
                 /\ stats[k].count > 0
                 /\ stats[k].count =
                      Cardinality({i \in WithUserAgent(h) :
                                     class(h[i].userAgent) = stats[k].device})
           /\ \A i \in WithUserAgent(h) :
                 \E k \in DOMAIN stats : stats[k].device = class(h[i].userAgent)
           /\ \A k \in 1..(Len(stats) - 1) : stats[k].count >= stats[k + 1].count

\* The breakdown of a history with an iPhone scan, a Googlebot scan and a
\* scan without a user agent has been returned.
C23_MixedHistoryClassified ==
    /\ resp.kind = "stats"
    /\ resp.totalScans = 3
    /\ Cardinality(WithUserAgent(qrcodes[1].scanHistory)) = 2
    /\ {resp.deviceStats[k].device : k \in DOMAIN resp.deviceStats}
          = {"Mobile", "Bot"}

\* The links u2 owns.
OwnedByU2 == {i \in DOMAIN qrcodes : qrcodes[i].userId = "u2"}

\* C24: the dashboard of an owner reports totalScans as the sum over the
\* owner's links and activeQRCodes as the number of them that are active;
\* topPerforming holds at most 10 of the owner's links, each once, in
\* non-increasing totalScans order, none of the links left out having more
\* scans than one listed, and all of them when there are at most 10;
\* recentActivity holds at most 20 events of the owner's links, each inside
\* the trailing 30-day window, in non-increasing timestamp order.
C24_DashboardAggregates ==
    (resp.kind = "dashboard" /\ resp.status = 200) =>
       LET top == resp.topPerforming
           recent == resp.recentActivity
           listed == {top[k].id : k \in DOMAIN top}
       IN  /\ resp.totalQRCodes = Cardinality(OwnedByU2)
           /\ resp.totalScans = SumTotalScans(OwnedByU2)
           /\ resp.activeQRCodes =
                 Cardinality({i \in OwnedByU2 : qrcodes[i].isActive})
           /\ Len(top) = Min(TopLinks, Cardinality(OwnedByU2))
           /\ listed \subseteq OwnedByU2 /\ Cardinality(listed) = Len(top)
           /\ \A k \in DOMAIN top : top[k].key = qrcodes[top[k].id].totalScans
           /\ \A k \in 1..(Len(top) - 1) : top[k].key >= top[k + 1].key
           /\ \A i \in OwnedByU2 \ listed, k \in DOMAIN top :
                 qrcodes[i].totalScans <= top[k].key
           /\ Len(recent) = Min(RecentEvents, resp.scansThisMonth)
           /\ \A k \in DOMAIN recent :
                 /\ recent[k].qrCodeId \in OwnedByU2
                 /\ recent[k].key >= now - WindowDays * DayTicks
                 /\ \E e \in DOMAIN qrcodes[recent[k].qrCodeId].scanHistory :
                       qrcodes[recent[k].qrCodeId].scanHistory[e].timestamp
                          = recent[k].key
           /\ \A k \in 1..(Len(recent) - 1) : recent[k].key >= recent[k + 1].key

\* A dashboard over more than 10 links and more than 20 events in the
\* window, some events outside it, has been returned.
C24_LargeDashboard ==
    /\ resp.kind = "dashboard" /\ resp.status = 200
    /\ resp.totalQRCodes > TopLinks /\ Len(resp.topPerforming) = TopLinks
    /\ resp.scansThisMonth > RecentEvents
    /\ Len(resp.recentActivity) = RecentEvents
    /\ resp.topPerforming[1].key > resp.topPerforming[TopLinks].key
    /\ \E i \in OwnedByU2 : \E e \in DOMAIN qrcodes[i].scanHistory :
          qrcodes[i].scanHistory[e].timestamp < now - WindowDays * DayTicks

\* C25: a link's isPremium is set at creation from the plan the owner has in
\* the creating request (false on free, true on pro or enterprise) and no
\* later step, be it a billing event, an update or a scan, changes it.
C25_PremiumFixedAtCreation ==
    [][/\ \A id \in DOMAIN qrcodes \cap DOMAIN qrcodes' :
            qrcodes'[id].isPremium = qrcodes[id].isPremium
       /\ \A p \in Procs :
            (pc[p] = "gen_insert" /\ pc'[p] # "gen_insert" /\ qrcodes' # qrcodes
             /\ local[p].user.id # Null) =>
               /\ local[p].user.plan = "free" => ~qrcodes'[nextId].isPremium
               /\ local[p].user.plan \in {"pro", "enterprise"} =>
                     qrcodes'[nextId].isPremium]_vars

\* A link created by an owner then on the free plan is still not premium
\* after the owner moved to pro and the link was renamed and resolved.
C25_UpgradedOwnerOldLink ==
    \E id \in DOMAIN qrcodes :
       /\ qrcodes[id].userId # Null
       /\ ~qrcodes[id].isPremium
       /\ users[qrcodes[id].userId].plan = "pro"
       /\ qrcodes[id].title = "Menu" /\ qrcodes[id].totalScans = 1

\* C26: a resolution answered with the redirect appends exactly one event
\* (the one it built), raises totalScans by exactly one and leaves
\* lastScanned equal to the timestamp of the newest scanHistory entry.
C26_ScanRecordedOnce ==
    [][\A p \in Procs :
          (/\ pc[p] = "res_save"
           /\ pc'[p] = "idle"
           /\ resp'.status = 302)
          => LET id == local[p].id
                 before == qrcodes[id]
                 after == qrcodes'[id]
                 newest == after.scanHistory[Len(after.scanHistory)]
             IN /\ newest = local[p].scanData
                /\ log'[id] = Append(log[id], newest)
                /\ after.totalScans = before.totalScans + 1
                /\ after.lastScanned = newest.timestamp]_vars

\* C27: a creation whose insert is rejected because the identifier it drew
\* is already stored is not failed on that rejection: the handler draws
\* another identifier and inserts again (every request of the model has
\* made one attempt when its insert is answered).
C27_DuplicateRetried ==
    [][\A p \in Procs :
          (/\ pc[p] = "gen_insert"
           /\ pc'[p] # "gen_insert"
           /\ SizeValid(local[p].size)
           /\ ShortIdTaken(local[p].shortId))
          => /\ pc'[p] # "idle"
             /\ resp'.status # 500]_vars

\* A destination in the usual form: an optional http:// or https:// (in any
\* case), a host of letters and dots that starts with a letter, and an
\* optional path after a slash; blanks around it are allowed.
ValidDestination(inputUrl) ==
    LET t == Trim(inputUrl)
        body == IF IsPrefix(Https, LowerCase(t)) THEN Drop(t, Len(Https))
                ELSE IF IsPrefix(Http, LowerCase(t)) THEN Drop(t, Len(Http))
                ELSE t
        slash == FirstIndex(body, {"/"})
        host == IF slash = 0 THEN body ELSE SubSeq(body, 1, slash - 1)
    IN  /\ host # <<>>
        /\ IsLetter(host[1])
        /\ \A i \in DOMAIN host : IsLetter(host[i]) \/ host[i] = "."

\* C28: sanitizeUrl returns the trimmed input when it starts with http:// or
\* https:// and https:// followed by the trimmed input otherwise (ex.co
\* becomes https://ex.co); validateUrl accepts a sanitized value only if it
\* parses as an absolute URL whose protocol is http or https, the two
\* validateUrl implementations agree on sanitized values, and every
\* destination in the usual form is accepted after sanitization.
C28_SanitizeThenValidate ==
    resp.kind = "url" =>
      LET t == Trim(resp.inputUrl) IN
        /\ HasProtocol(t) => resp.url = t
        /\ ~HasProtocol(t) => resp.url = Https \o t
        /\ t = BareDomain => resp.url = ExCo
        /\ resp.valid => /\ ParseUrl(resp.url).ok
                         /\ ParseUrl(resp.url).protocol \in HttpSchemes
        /\ resp.validProtocol = resp.valid
        /\ resp.status = (IF resp.valid THEN 200 ELSE 400)
        /\ ValidDestination(resp.inputUrl) => resp.valid

\* A padded bare domain was sanitized to https://ex.co and accepted.
C28_PaddedBareDomainAccepted ==
    /\ resp.kind = "url"
    /\ resp.inputUrl = <<" ">> \o BareDomain
    /\ resp.url = ExCo
    /\ resp.valid

\* The responses a request of each kind can end with.
CoreOutcomes(kind) ==
    CASE kind = "resolve" -> {302, 404, 500}
      [] kind = "generate" -> {200, 400, 403, 500}
      [] kind = "delete" -> {200, 401, 404, 500}
      [] OTHER -> {}

C30_CounterMatchesLinks ==
    (\A p \in Procs : pc[p] = "idle")
      => \A u \in Users : users[u].qrCodesCreated = CountDocuments(u)

\* C31: in every persisted state of a link scanHistory holds at most
\* totalScans entries, and lastScanned is unset exactly when totalScans = 0,
\* overlapping resolutions of the link included.
C31_HistoryWithinTotal ==
    \A id \in Links :
       /\ Len(qrcodes[id].scanHistory) <= qrcodes[id].totalScans
       /\ (qrcodes[id].lastScanned = NoDate) <=> (qrcodes[id].totalScans = 0)

\* C32: whenever no creation is in flight, every account whose maxQRCodes is
\* finite owns at most maxQRCodes links.
C32_WithinLimitAtRest ==
    InFlight(GenPcs) = 0 =>
      \A u \in Users :
         users[u].limits.maxQRCodes # UnlimitedQRCodes
           => CountDocuments(u) <= users[u].limits.maxQRCodes

\* C33: a creation leaves every link already stored as it was, destination,
\* owner and analytics included, also when the identifier it drew is the
\* key of a stored link (here for the Map-backed server).
C33_CreationKeepsStoredLinks ==
    [][(\E p \in Procs : pc[p] = "mem_store" /\ pc'[p] = "idle")
         => \A id \in DOMAIN qrcodes :
               id \in DOMAIN qrcodes' /\ qrcodes'[id] = qrcodes[id]]_vars

\* C34: a creation that is answered with an error (400, 403 or 500) has
\* persisted no link of its own and leaves every account's counter as it
\* was.
C34_FailedCreationPersistsNothing ==
    [][\A p \in Procs :
          (/\ pc[p] \in GenPcs
           /\ pc'[p] = "idle"
           /\ resp'.status # 200)
          => /\ local[p].id \notin DOMAIN qrcodes'
             /\ users' = users]_vars


\* C35: Scan recording changes analytics only.  The save of a resolution
\* leaves the stored isActive, title, description and destination as they
\* are, also when an update was saved between its load and its save; a stored
\* isActive goes from false to true only in the save of an update request
\* that set isActive to true, and title and description change only in the
\* save of an update request that assigned them.
C35_ScanSavesAnalyticsOnly ==
    [][/\ \A p \in Procs :
            (pc[p] = "res_save" /\ pc'[p] = "idle") =>
               /\ qrcodes'[1].isActive = qrcodes[1].isActive
               /\ qrcodes'[1].title = qrcodes[1].title
               /\ qrcodes'[1].description = qrcodes[1].description
               /\ qrcodes'[1].url = qrcodes[1].url
       /\ (~qrcodes[1].isActive /\ qrcodes'[1].isActive) =>
            \E p \in Procs :
               /\ pc[p] = "upd_save" /\ pc'[p] = "idle"
               /\ "isActive" \in local[p].fields /\ local[p].doc.isActive
       /\ \A f \in {"title", "description"} :
            qrcodes'[1][f] # qrcodes[1][f] =>
               \E p \in Procs :
                  /\ pc[p] = "upd_save" /\ pc'[p] = "idle"
                  /\ f \in local[p].fields /\ qrcodes'[1][f] = local[p].doc[f]]_vars

\* A resolution that loaded the link while it was active saved its scan
\* after the owner's deactivation and retitling had been saved: the scan is
\* counted and the link is still inactive under its new title.
C35_ScanSavedAfterDeactivation ==
    /\ \A p \in Procs : pc[p] = "idle"
    /\ resp = [kind |-> "resolve", status |-> 302, shortId |-> 1,
               location |-> ExCo]
    /\ ~qrcodes[1].isActive
    /\ qrcodes[1].title # NewQRCode(NoUser, ExCo, 1).title
    /\ qrcodes[1].totalScans = 1 /\ redirects[1] = 1
    /\ 1 \notin hist.reactivated


\* C36: Deletion is permanent.  A link that has been removed (its _id was
\* inserted once and is no longer stored) is not stored again by any later
\* step, the save of a resolution that loaded it before the delete included,
\* and from then on no resolution of its identifier finds a link to
\* redirect to.
C36_DeletionPermanent ==
    [][/\ \A id \in 1..(nextId - 1) :
            id \notin DOMAIN qrcodes => id \notin DOMAIN qrcodes'
       /\ \A p \in Procs :
            (pc[p] = "idle" /\ pc'[p] = "res_save") =>
               \A id \in assigned[local'[p].shortId] : id \in DOMAIN qrcodes]_vars


\* C37: A session token authenticates a request only if a login issued it
\* and its expiry, 7 days after the issue, has not passed.  A login stores
\* its new token with expiresAt = now + 7 days and no step changes a stored
\* session; a request is authenticated exactly when its header carries a
\* stored token whose expiresAt is not before now, and then as the account
\* that logged in; a request whose token is unknown or expired gets no user
\* and the token is not in the session map afterwards; time never goes back,
\* so no request is authenticated by a token after its expiry has passed.
C37_TokenAuthenticatesUntilExpiry ==
    [][/\ now' >= now
       /\ \A t \in DOMAIN sessions' :
            IF t \in DOMAIN sessions
            THEN sessions'[t] = sessions[t]
            ELSE /\ t = GenerateToken(now)
                 /\ sessions'[t].expiresAt = now + SessionTTL
                 /\ pc' = pc
       /\ \A p \in Procs :
            (pc[p] = "idle" /\ pc'[p] \in GenPcs) =>
               LET hdr == local'[p].hdr
                   user == local'[p].user
                   valid == /\ hdr.kind = "bearer"
                            /\ hdr.token \in DOMAIN sessions
                            /\ now <= sessions[hdr.token].expiresAt
               IN  /\ (user.id # Null) <=> valid
                   /\ valid => /\ user.id = sessions[hdr.token].userId
                               /\ now <= GenerateToken(hdr.token) + SessionTTL
                               /\ sessions' = sessions
                   /\ (hdr.kind = "bearer" /\ ~valid) =>
                         /\ hdr.token \notin DOMAIN sessions'
                         /\ \A t \in DOMAIN sessions \ {hdr.token} :
                               t \in DOMAIN sessions']_vars

\* The token issued at time 1 authenticated a creation of u1; after its
\* expiry had passed two requests presented it: both are handled as
\* anonymous and the session map no longer holds it.
C37_ExpiredTokenPresentedTwice ==
    /\ now > 1 + SessionTTL
    /\ 1 \in Links /\ qrcodes[1].userId = "u1"
    /\ DOMAIN sessions = {}
    /\ \A p \in Procs :
          /\ pc[p] = "gen_insert"
          /\ local[p].hdr = [kind |-> "bearer", token |-> GenerateToken(1)]
          /\ local[p].user.id = Null


\* C38: when the webhook handler has saved the account of a subscription
\* event (the request is answered 200), the stored plan is the plan of the
\* event (pro or business for an active subscription with that price, free
\* otherwise) and the stored limits are the limits of that plan; no other
\* step and no other account is changed.
C38_PlanFollowsSubscription ==
    [][/\ \A p \in Procs :
            (pc[p] = "hook_save" /\ pc'[p] = "idle" /\ resp'.status = 200) =>
               LET u == local[p].user.id
                   plan == local[p].newPlan
               IN  /\ users'[u].plan = plan
                   /\ users'[u].limits = PlanLimits(plan)
                   /\ \A w \in Users \ {u} : users'[w] = users[w]
       /\ users' # users =>
            \E p \in Procs : pc[p] = "hook_save" /\ pc'[p] = "idle"]_vars


\* C39: every stored link that has no owner has isPremium = false, and a
\* link stored by a creation has isPremium = true only if the request had an
\* owner whose plan was not free.
C39_AnonymousNotPremium ==
    [][/\ \A id \in DOMAIN qrcodes' :
            qrcodes'[id].userId = Null => ~qrcodes'[id].isPremium
       /\ \A p \in Procs :
            (pc[p] = "gen_insert" /\ pc'[p] # "gen_insert" /\ qrcodes' # qrcodes
             /\ qrcodes'[nextId].isPremium) =>
               local[p].user.id # Null /\ local[p].user.plan # "free"]_vars

====
